---- MODULE Spec2Model ----
(***************************************************************************)
(* Export step of steps-export-xcarchive: RunStep with ProcessInputs, Run   *)
(* and ExportOutput (src/main.go) and generateExportOptionsPlist            *)
(* (src/utils.go).  One run of the step is a sequential process; pc is its *)
(* position.  The code-signing stores, the archive, the step inputs and    *)
(* the files the export leaves behind are the inputs, fixed by Init.       *)
(* The helpers of github.com/bitrise-io/go-xcode (export, exportoptions,   *)
(* profileutil, certificateutil) are modelled after sections 3 and 4 of    *)
(* the design description and the log texts of utils.go.                   *)
(***************************************************************************)
EXTENDS Integers, Sequences, FiniteSets, TLC

VARIABLES
    inputs,                 \* Inputs as the environment holds them, and the Xcode found
    disk,                   \* the machine: .ipa files the export produces, .ipa
                            \* files of the working directory, dSYMs of the
                            \* archive, how the export can end, what can fail after
    config,                 \* Config / RunOpts: what ProcessInputs returned
    defaultProfileURL,      \* os.Getenv("BITRISE_DEFAULT_PROVISION_URL")
    archive,                \* what xcarchive.NewIosArchive reads from disk
    installedCerts,         \* certificate store, in enumeration order
    installedProfs,         \* profile store, in enumeration order
    pc,                     \* position of the run
    certs,                  \* utils.go: certs (valid certificates)
    profs,                  \* utils.go: profs
    codeSignGroups,         \* utils.go: codeSignGroups (selectable groups)
    iosCodeSignGroups,      \* utils.go: iosCodeSignGroups (narrowed groups)
    defaultProfile,         \* result of getDefaultProvisioningProfile
    exportTeamID,           \* utils.go:67
    exportCodeSignIdentity, \* utils.go:68
    exportProfileMapping,   \* utils.go:69
    exportCodeSignStyle,    \* utils.go:70
    exportOptionsContent,   \* string returned by generateExportOptionsPlist
    exportOptionsFile,      \* content of <deploy dir>/export_options.plist
    exportInvoked,          \* xcodebuild -exportArchive has been started
    err,                    \* error returned by Run ("" = nil)
    processErr,             \* error returned by ProcessInputs ("" = nil)
    out,                    \* RunOut returned by Run
    exportErr,              \* error returned by ExportOutput ("" = nil)
    deployDir,              \* files ExportOutput has put into the deploy directory
    envs,                   \* outputs exported with envman: key -> path
    exitCode,               \* exit code of the process (NotExited while it runs)
    logs,                   \* diagnostics printed so far (Warnf / Errorf)
    trail,                  \* candidate set after each executed resolution step
    runNo,                  \* 1 for the first run, 2 for a repeated run
    prevContent             \* exportOptionsContent of the previous run

vars == <<inputs, disk, config, defaultProfileURL, archive, installedCerts, installedProfs, pc,
          certs, profs, codeSignGroups, iosCodeSignGroups, defaultProfile,
          exportTeamID, exportCodeSignIdentity, exportProfileMapping,
          exportCodeSignStyle, exportOptionsContent, exportOptionsFile,
          exportInvoked, err, processErr, out, exportErr, deployDir, envs,
          exitCode, logs, trail, runNo, prevContent>>

-----------------------------------------------------------------------------
(* Bounds of the model *)

MaxCerts == 2
MaxProfiles == 2

-----------------------------------------------------------------------------
(* Values *)

NoContent == [unwritten |-> TRUE]
EmptyMapping == [b \in {} |-> ""]

\* A file that holds the given text as it is.
TextFile(content) == [text |-> content]

ExportProductApp == "app"
ExportProductAppClip == "app-clip"

MethodAppStore == "app-store"
MethodDevelopment == "development"
MethodAdHoc == "ad-hoc"
MethodEnterprise == "enterprise"
Methods == {MethodAppStore, MethodAdHoc, MethodEnterprise, MethodDevelopment}

MainBundleID == "com.app"
ExtBundleID == "com.app.ext"
ClipBundleID == "com.app.Clip"

CertOne == [serial |-> "S1", commonName |-> "iPhone Distribution: One",
            teamID |-> "T1", valid |-> TRUE]
CertTwo == [serial |-> "S2", commonName |-> "iPhone Distribution: Two",
            teamID |-> "T2", valid |-> TRUE]
CertExpired == [serial |-> "S3", commonName |-> "iPhone Distribution: Old",
                teamID |-> "T1", valid |-> FALSE]
Certificates == {CertOne, CertTwo, CertExpired}

ProfDist == [name |-> "Dist App", bundleID |-> "com.app",
             exportType |-> MethodAppStore,
             developerCertificates |-> {"S1"}, entitlements |-> {"aps-environment"}]
ProfDistWild == [name |-> "Dist Wildcard", bundleID |-> "*",
                 exportType |-> MethodAppStore,
                 developerCertificates |-> {"S2"}, entitlements |-> {"aps-environment"}]
ProfManaged == [name |-> "XC iOS: *", bundleID |-> "*",
                exportType |-> MethodAppStore,
                developerCertificates |-> {"S1", "S2"}, entitlements |-> {"aps-environment"}]
ProfDev == [name |-> "Dev App", bundleID |-> "com.app",
            exportType |-> MethodDevelopment,
            developerCertificates |-> {"S1", "S3"}, entitlements |-> {"aps-environment"}]
ProfDevManaged == [name |-> "iOS Team Provisioning Profile: *", bundleID |-> "*",
                   exportType |-> MethodDevelopment,
                   developerCertificates |-> {"S1", "S2"}, entitlements |-> {}]
Profiles == {ProfDist, ProfDistWild, ProfManaged, ProfDev, ProfDevManaged}

ArchiveProfileNames == {"Dist App", "XC iOS: com.app"}

\* Sequences without repetition of at most n elements of S, in any order.
DistinctSeqs(S, n) ==
    {s \in UNION {[1..k -> S] : k \in 0..n} :
        \A i, j \in 1..Len(s) : i # j => s[i] # s[j]}

Range(s) == {s[i] : i \in 1..Len(s)}

\* All orders in which the keys of a Go map can be visited by range.
VisitOrders(keys) ==
    {s \in [1..Cardinality(keys) -> keys] : Range(s) = keys}

\* Environment keys of the outputs (main.go:25-27)
bitriseIPAPthEnvKey == "BITRISE_IPA_PATH"
bitriseDSYMPthEnvKey == "BITRISE_DSYM_PATH"
bitriseIDEDistributionLogsPthEnvKey == "BITRISE_IDEDISTRIBUTION_LOGS_PATH"

NotExited == -1

-----------------------------------------------------------------------------
(* Texts of the inputs.  A text is the sequence of its pieces, each piece    *)
(* a single white-space character or a run of other characters; the string *)
(* is their concatenation.                                                  *)

WhiteSpace == {" ", "\t", "\n", "\r"}

RECURSIVE Join(_)
Join(text) == IF Len(text) = 0 THEN "" ELSE Head(text) \o Join(Tail(text))

RECURSIVE TrimLeft(_)
TrimLeft(text) ==
    IF Len(text) > 0 /\ Head(text) \in WhiteSpace THEN TrimLeft(Tail(text)) ELSE text

RECURSIVE TrimRight(_)
TrimRight(text) ==
    IF Len(text) > 0 /\ text[Len(text)] \in WhiteSpace
    THEN TrimRight(SubSeq(text, 1, Len(text) - 1)) ELSE text

\* Variant: only the leading white space is removed.
TrimSpaceLeading(text) == TrimLeft(text)

\* strings.TrimSpace
TrimSpace(text) == TrimRight(TrimLeft(text))

PlistDocument == "<plist><dict><key>method</key><string>ad-hoc</string></dict></plist>"
PlistRoot == "<plist>"
PlistBody == "<dict/>"
PlistEnd == "</plist>"

\* The documents plist.Unmarshal reads into a dictionary.
PropertyLists ==
    {PlistDocument, Join(<<PlistRoot, PlistBody, PlistEnd>>),
     Join(<<PlistRoot, "\n", PlistBody, "\n", PlistEnd>>)}

\* plist.Unmarshal(content, &options): whether the content parses.
PlistUnmarshal(content) == content \in PropertyLists

-----------------------------------------------------------------------------
(* go-xcode helpers *)

\* profileutil.IsXcodeManaged: decided by the profile's name prefix.
IsXcodeManaged(name) ==
    name \in {"XC iOS: *", "XC iOS: com.app", "iOS Team Provisioning Profile: *"}

\* glob.Glob(profile.BundleID, bundleID): "*" matches any run of characters.
Glob(pattern, bundleID) ==
    \/ pattern = "*"
    \/ pattern = bundleID

\* certificateutil.FilterValidCertificateInfos(certs).ValidCertificates
FilterValidCertificateInfos(installed) ==
    SelectSeq(installed, LAMBDA c : c.valid)

\* archive.BundleIDEntitlementsMap(): bundle ID -> entitlement keys.
BundleIDEntitlementsMap(a) == a.entitlements

\* export.CreateSelectableCodeSignGroups: one group per certificate, in the
\* order of certs, holding for every bundle ID the installed profiles that
\* embed the certificate and whose pattern matches, in the order of profs.
\* A certificate that leaves a bundle ID without profile forms no group.
CreateSelectableCodeSignGroups(cs, ps, bundleIDs) ==
    LET profilesOf(c, b) ==
            SelectSeq(ps, LAMBDA p : /\ c.serial \in p.developerCertificates
                                     /\ Glob(p.bundleID, b))
        group(c) == [certificate |-> c,
                     bundleIDProfilesMap |-> [b \in bundleIDs |-> profilesOf(c, b)]]
        selectable(c) ==
            /\ \E i \in 1..Len(ps) : c.serial \in ps[i].developerCertificates
            /\ \A b \in bundleIDs : Len(profilesOf(c, b)) > 0
        owners == SelectSeq(cs, selectable)
    IN  [i \in 1..Len(owners) |-> group(owners[i])]

\* The filters export.Create...SelectableCodeSignGroupFilter build; a filter
\* is applied to one group and allows it or not, and may shorten its lists.

\* export.CreateEntitlementsSelectableCodeSignGroupFilter
CreateEntitlementsSelectableCodeSignGroupFilter(bundleIDEntitlementsMap) ==
    [kind |-> "entitlements", bundleIDEntitlementsMap |-> bundleIDEntitlementsMap]

\* export.CreateExportMethodSelectableCodeSignGroupFilter
CreateExportMethodSelectableCodeSignGroupFilter(exportMethod) ==
    [kind |-> "export-method", exportMethod |-> exportMethod]

\* export.CreateTeamSelectableCodeSignGroupFilter
CreateTeamSelectableCodeSignGroupFilter(teamID) ==
    [kind |-> "team", teamID |-> teamID]

\* export.CreateNotXcodeManagedSelectableCodeSignGroupFilter
CreateNotXcodeManagedSelectableCodeSignGroupFilter ==
    [kind |-> "not-xcode-managed"]

\* export.CreateExcludeProfileNameSelectableCodeSignGroupFilter
CreateExcludeProfileNameSelectableCodeSignGroupFilter(name) ==
    [kind |-> "exclude-profile-name", name |-> name]

\* Whether a profile-level filter keeps profile p in the list of bundleID.
ProfileAllowed(filter, bundleID, p) ==
    CASE filter.kind = "entitlements" ->
             filter.bundleIDEntitlementsMap[bundleID] \subseteq p.entitlements
      [] filter.kind = "export-method" -> p.exportType = filter.exportMethod
      [] filter.kind = "not-xcode-managed" -> ~IsXcodeManaged(p.name)
      [] filter.kind = "exclude-profile-name" -> p.name # filter.name

\* One filter on one group.  The team filter looks at the certificate; the
\* others drop from every bundle ID's list the profiles that do not qualify
\* and allow the group when every bundle ID keeps at least one profile.
ApplyFilter(filter, group) ==
    IF filter.kind = "team"
    THEN [ok |-> group.certificate.teamID = filter.teamID, group |-> group]
    ELSE LET m == group.bundleIDProfilesMap
             filtered == [b \in DOMAIN m |->
                             SelectSeq(m[b], LAMBDA p : ProfileAllowed(filter, b, p))]
         IN  [ok |-> \A b \in DOMAIN m : Len(filtered[b]) > 0,
              group |-> [group EXCEPT !.bundleIDProfilesMap = filtered]]

\* export.FilterSelectableCodeSignGroups: the groups the filter allows, in
\* their order, each as the filter left it.
FilterSelectableCodeSignGroups(groups, filter) ==
    LET results == [i \in 1..Len(groups) |-> ApplyFilter(filter, groups[i])]
        allowed == SelectSeq(results, LAMBDA r : r.ok)
    IN  [i \in 1..Len(allowed) |-> allowed[i].group]

\* export.NewIOSGroup
NewIOSGroup(certificate, bundleIDProfileMap) ==
    [certificate |-> certificate, bundleIDProfileMap |-> bundleIDProfileMap]

\* exportoptions.NewAppStoreOptions / NewNonAppStoreOptions: the options with
\* every field at its default.
NewAppStoreOptions ==
    [method |-> MethodAppStore, uploadBitcode |-> TRUE, manageAppVersion |-> TRUE,
     provisioningProfiles |-> EmptyMapping, signingCertificate |-> "",
     teamID |-> "", signingStyle |-> ""]

NewNonAppStoreOptions(method) ==
    [method |-> method, compileBitcode |-> TRUE, distributionBundleIdentifier |-> "",
     provisioningProfiles |-> EmptyMapping, signingCertificate |-> "",
     teamID |-> "", signingStyle |-> ""]

\* A field holding its default is left out of the serialized document.
IsDefaultValue(key, value) ==
    CASE key = "method" -> FALSE
      [] key \in {"uploadBitcode", "compileBitcode", "manageAppVersion"} -> value = TRUE
      [] key = "provisioningProfiles" -> DOMAIN value = {}
      [] OTHER -> value = ""

\* exportOpts.String(): the property list, as its key -> value content.
String(options) ==
    LET keys == {k \in DOMAIN options : ~IsDefaultValue(k, options[k])}
    IN  [k \in keys |-> options[k]]

-----------------------------------------------------------------------------
(* generateExportOptionsPlist, step by step (src/utils.go) *)

\* Variant: the main application's bundle ID whatever the product.
ProductBundleIDOfApplication(exportProduct, a) == MainBundleID

\* utils.go:72-77
ProductBundleID(exportProduct, a) ==
    CASE exportProduct = ExportProductApp -> MainBundleID
      [] exportProduct = ExportProductAppClip /\ a.hasClip -> ClipBundleID
      [] OTHER -> ""

\* utils.go:91-100: the keys of the entitlements map
BundleIDs(a) == DOMAIN BundleIDEntitlementsMap(a)

\* Variant: the groups are not filtered for the targets' entitlements.
EntitlementsStepSkipped(groups, bundleIDEntitlementsMap) == groups

\* utils.go:142-151
EntitlementsStep(groups, bundleIDEntitlementsMap) ==
    IF Cardinality(DOMAIN bundleIDEntitlementsMap) > 0
    THEN FilterSelectableCodeSignGroups(groups,
            CreateEntitlementsSelectableCodeSignGroupFilter(bundleIDEntitlementsMap))
    ELSE groups

\* Variant: the export-method filter is dropped when it leaves no group.
ExportMethodStepSkippedWhenEmpty(groups, exportMethod) ==
    LET filtered == FilterSelectableCodeSignGroups(groups,
                        CreateExportMethodSelectableCodeSignGroupFilter(exportMethod))
    IN  IF Len(filtered) > 0 THEN filtered ELSE groups

\* utils.go:153-160
ExportMethodStep(groups, exportMethod) ==
    FilterSelectableCodeSignGroups(groups,
        CreateExportMethodSelectableCodeSignGroupFilter(exportMethod))

\* Variant: the groups are not filtered for the team.
TeamStepSkipped(groups, teamID) == groups

\* Variant: the team filter is dropped when it leaves no group.
TeamStepSkippedWhenEmpty(groups, teamID) ==
    LET filtered == FilterSelectableCodeSignGroups(groups,
                        CreateTeamSelectableCodeSignGroupFilter(teamID))
    IN  IF teamID # "" /\ Len(filtered) > 0 THEN filtered ELSE groups

\* utils.go:162-171
TeamStep(groups, teamID) ==
    IF teamID # ""
    THEN FilterSelectableCodeSignGroups(groups,
            CreateTeamSelectableCodeSignGroupFilter(teamID))
    ELSE groups

\* Variant: the condition on the archive's profile is inverted.
NotXcodeManagedStepInverted(groups, archiveProfileName) ==
    IF IsXcodeManaged(archiveProfileName)
    THEN FilterSelectableCodeSignGroups(groups,
            CreateNotXcodeManagedSelectableCodeSignGroupFilter)
    ELSE groups

\* utils.go:173-184
NotXcodeManagedStep(groups, archiveProfileName) ==
    IF ~IsXcodeManaged(archiveProfileName)
    THEN FilterSelectableCodeSignGroups(groups,
            CreateNotXcodeManagedSelectableCodeSignGroupFilter)
    ELSE groups

\* Variant: the groups without the default profile are taken even when none is left.
DefaultProfileStepUnchecked(groups, teamID, url, fetched) ==
    IF teamID = "" /\ url # "" /\ fetched.ok
    THEN FilterSelectableCodeSignGroups(groups,
            CreateExcludeProfileNameSelectableCodeSignGroupFilter(fetched.profile.name))
    ELSE groups

\* utils.go:186-201; fetched is what getDefaultProvisioningProfile returned
DefaultProfileStep(groups, teamID, url, fetched) ==
    IF teamID = "" /\ url # "" /\ fetched.ok
    THEN LET filteredCodeSignGroups ==
                FilterSelectableCodeSignGroups(groups,
                    CreateExcludeProfileNameSelectableCodeSignGroupFilter(
                        fetched.profile.name))
         IN  IF Len(filteredCodeSignGroups) > 0 THEN filteredCodeSignGroups ELSE groups
    ELSE groups

\* Variant: the first installed profile is taken instead of the first candidate.
FirstProfilesOfStore(selectable) ==
    LET m == selectable.bundleIDProfilesMap
    IN  [b \in {x \in DOMAIN m : Len(m[x]) > 0} |-> profs[1]]

\* utils.go:206-213
FirstProfiles(selectable) ==
    LET m == selectable.bundleIDProfilesMap
    IN  [b \in {x \in DOMAIN m : Len(m[x]) > 0} |-> m[b][1]]

\* Variant: a group with a bundle ID without profile is left out.
NarrowCompleteGroups(groups) ==
    LET complete == SelectSeq(groups, LAMBDA g :
                        \A b \in DOMAIN g.bundleIDProfilesMap :
                            Len(g.bundleIDProfilesMap[b]) > 0)
    IN  [i \in 1..Len(complete) |->
            NewIOSGroup(complete[i].certificate, FirstProfiles(complete[i]))]

\* utils.go:203-216
NarrowGroups(groups) ==
    [i \in 1..Len(groups) |->
        NewIOSGroup(groups[i].certificate, FirstProfiles(groups[i]))]

\* Variant: the last group is taken.
SelectLastGroup(groups) == groups[Len(groups)]

\* utils.go:227-231
SelectGroup(groups) == groups[1]

\* utils.go:242-253: the style after visiting one profile
StyleOf(profileName) ==
    IF IsXcodeManaged(profileName) THEN "automatic" ELSE "manual"

\* Variant: the style of the profile visited last, no comparison with the
\* profiles visited before it.
SignStyleLoopSilent(order, i, bundleIDProfileMap, acc) ==
    IF Len(order) < i THEN acc
    ELSE [style |-> StyleOf(bundleIDProfileMap[order[Len(order)]].name), mixed |-> FALSE]

\* utils.go:239-254: the loop over the selected group's map, visited in order
RECURSIVE SignStyleLoop(_, _, _, _)
SignStyleLoop(order, i, bundleIDProfileMap, acc) ==
    IF i > Len(order) THEN acc
    ELSE LET style == StyleOf(bundleIDProfileMap[order[i]].name)
         IN  SignStyleLoop(order, i + 1, bundleIDProfileMap,
                 [style |-> style,
                  mixed |-> acc.mixed \/ (acc.style # "" /\ acc.style # style)])

\* Variant: the group's style is not looked at.
SigningStyleOfArchive(archiveProfileName, exportCodeSignStyleValue) ==
    IF IsXcodeManaged(archiveProfileName) THEN "manual" ELSE ""

\* Variant: the archive's profile is not looked at.
SigningStyleOfGroup(archiveProfileName, exportCodeSignStyleValue) ==
    IF exportCodeSignStyleValue = "manual" THEN "manual" ELSE ""

\* Variant: the group's style is written as it is.
SigningStyleCopied(archiveProfileName, exportCodeSignStyleValue) ==
    IF IsXcodeManaged(archiveProfileName) THEN exportCodeSignStyleValue ELSE ""

\* utils.go:270-276 and 299-305
SigningStyle(archiveProfileName, exportCodeSignStyleValue) ==
    IF IsXcodeManaged(archiveProfileName) /\ exportCodeSignStyleValue = "manual"
    THEN "manual" ELSE ""

\* Variant: the manage-version flag and the distribution bundle identifier
\* are written for every Xcode version.
ExportOptionsUngated(cfg, a, signing) ==
    IF cfg.distributionMethod = MethodAppStore
    THEN LET o1 == [NewAppStoreOptions
                        EXCEPT !.uploadBitcode = cfg.uploadBitcode,
                               !.manageAppVersion = cfg.manageVersionAndBuildNumber]
         IN  IF cfg.xcodeMajorVersion >= 9
             THEN [o1 EXCEPT !.provisioningProfiles = signing.mapping,
                             !.signingCertificate = signing.identity,
                             !.teamID = signing.teamID]
             ELSE o1
    ELSE LET o1 == [NewNonAppStoreOptions(cfg.distributionMethod)
                        EXCEPT !.compileBitcode = cfg.compileBitcode,
                               !.distributionBundleIdentifier = MainBundleID]
         IN  IF cfg.xcodeMajorVersion >= 9
             THEN [o1 EXCEPT !.provisioningProfiles = signing.mapping,
                             !.signingCertificate = signing.identity,
                             !.teamID = signing.teamID]
             ELSE o1

\* utils.go:260-309: the options object handed to String()
ExportOptions(cfg, a, signing) ==
    IF cfg.distributionMethod = MethodAppStore
    THEN LET o1 == [NewAppStoreOptions EXCEPT !.uploadBitcode = cfg.uploadBitcode]
             o2 == IF cfg.xcodeMajorVersion >= 9
                   THEN [o1 EXCEPT !.provisioningProfiles = signing.mapping,
                                   !.signingCertificate = signing.identity,
                                   !.teamID = signing.teamID,
                                   !.signingStyle = SigningStyle(a.profileName, signing.style)]
                   ELSE o1
         IN  IF cfg.xcodeMajorVersion >= 13
             THEN [o2 EXCEPT !.manageAppVersion = cfg.manageVersionAndBuildNumber]
             ELSE o2
    ELSE LET o1 == [NewNonAppStoreOptions(cfg.distributionMethod)
                        EXCEPT !.compileBitcode = cfg.compileBitcode]
             o2 == IF cfg.xcodeMajorVersion >= 12
                   THEN [o1 EXCEPT !.distributionBundleIdentifier =
                                       ProductBundleID(cfg.productToDistribute, a)]
                   ELSE o1
         IN  IF cfg.xcodeMajorVersion >= 9
             THEN [o2 EXCEPT !.provisioningProfiles = signing.mapping,
                             !.signingCertificate = signing.identity,
                             !.teamID = signing.teamID,
                             !.signingStyle = SigningStyle(a.profileName, signing.style)]
             ELSE o2

-----------------------------------------------------------------------------
(* Inputs *)

DefaultProvisionURL == "https://example.com/default.mobileprovision"

\* Profiles the default-profile URL may serve.
DefaultProfiles == {ProfDist, ProfDevManaged}

Archives(withExt, withClip) ==
    {[profileName |-> n, hasClip |-> c,
      entitlements |-> IF e THEN (MainBundleID :> {"aps-environment"}) @@ (ExtBundleID :> {})
                            ELSE (MainBundleID :> {"aps-environment"})] :
        n \in ArchiveProfileNames, c \in withClip, e \in withExt}

\* Config{} and RunOut{}: the zero values
ZeroConfig ==
    [productToDistribute |-> "", xcodeMajorVersion |-> 0,
     exportOptionsPlistContent |-> "", distributionMethod |-> "", teamID |-> "",
     uploadBitcode |-> FALSE, compileBitcode |-> FALSE,
     manageVersionAndBuildNumber |-> FALSE]

ZeroRunOut ==
    [ideDistrubutionLogDir |-> "", tmpDir |-> "", appDSYMs |-> <<>>, archiveName |-> ""]

\* What can come of main.go:209-249.
ExportOutcomes == {"no-tmp-dir", "failed", "failed-with-logs", "no-dsyms", "exported"}

\* What fails in ExportOutput, if anything.
ExportFailures == {"none", "copy", "envman", "zip"}

\* The machine around the export: what xcodebuild writes into its export
\* directory when it succeeds, the .ipa files lying in the working directory,
\* the dSYMs of the archive, the ways the export can end on this machine and
\* the operations of ExportOutput that can fail on it.
Disks(exports, workDirs, dsyms, outcomes, failures) ==
    {[exported |-> e, workDir |-> w, dsyms |-> d,
      outcomes |-> outcomes, failures |-> failures] :
        e \in exports, w \in workDirs, d \in dsyms}

\* A machine where the export succeeds or fails without logs and the files
\* can be copied.
OneDisk ==
    Disks({<<"App.ipa">>}, {<<>>}, {<<"App.app.dSYM">>}, {"exported", "failed"}, {"none"})

\* The step inputs; the team and the override are texts, the Xcode major
\* version is what utility.GetXcodeVersion finds.
Configs(products, versions, overrides, methods, teams, flags) ==
    {[productToDistribute |-> p, xcodeMajorVersion |-> v,
      exportOptionsPlistContent |-> o, distributionMethod |-> m, teamID |-> t,
      uploadBitcode |-> u, compileBitcode |-> c, manageVersionAndBuildNumber |-> g] :
        p \in products, v \in versions, o \in overrides, m \in methods, t \in teams,
        u \in flags, c \in flags, g \in flags}

InitWith(configs, urls, archives, certSeqs, profSeqs, disks) ==
    /\ inputs \in configs
    /\ disk \in disks
    /\ config = ZeroConfig
    /\ processErr = ""
    /\ out = ZeroRunOut
    /\ exportErr = ""
    /\ deployDir = {}
    /\ envs = [k \in {} |-> ""]
    /\ exitCode = NotExited
    /\ defaultProfileURL \in urls
    /\ archive \in archives
    /\ installedCerts \in certSeqs
    /\ installedProfs \in profSeqs
    /\ pc = "ProcessInputs"
    /\ certs = <<>>
    /\ profs = <<>>
    /\ codeSignGroups = <<>>
    /\ iosCodeSignGroups = <<>>
    /\ defaultProfile = [ok |-> FALSE]
    /\ exportTeamID = ""
    /\ exportCodeSignIdentity = ""
    /\ exportProfileMapping = EmptyMapping
    /\ exportCodeSignStyle = ""
    /\ exportOptionsContent = NoContent
    /\ exportOptionsFile = NoContent
    /\ exportInvoked = FALSE
    /\ err = ""
    /\ logs = {}
    /\ trail = <<>>
    /\ runNo = 1
    /\ prevContent = NoContent

\* Resolution in depth: every store content within the bounds.
Init ==
    InitWith(Configs({ExportProductApp}, {9}, {<<>>},
                     {MethodAppStore, MethodDevelopment}, {<<>>, <<"T1">>}, {TRUE}),
             {"", DefaultProvisionURL},
             Archives(BOOLEAN, {FALSE}),
             DistinctSeqs(Certificates, MaxCerts),
             DistinctSeqs(Profiles \ {ProfDistWild}, MaxProfiles),
             OneDisk)

\* Xcode major versions around the thresholds 9, 12 and 13 of utils.go.
XcodeVersions == {8, 9, 11, 12, 13}

\* The run in breadth: every configuration, a few store contents; with a
\* default-profile URL, the configurations around the Xcode 9 threshold.
InitRun ==
    \/ InitWith(Configs({ExportProductApp, ExportProductAppClip}, XcodeVersions,
                        {<<>>, <<PlistDocument>>},
                        {MethodAppStore, MethodDevelopment, MethodAdHoc},
                        {<<>>, <<"T1">>}, BOOLEAN),
                {""},
                Archives({FALSE}, BOOLEAN),
                {<<CertOne>>},
                {<<>>, <<ProfDist>>, <<ProfDistWild>>, <<ProfDev, ProfManaged>>},
                OneDisk)
    \/ InitWith(Configs({ExportProductApp}, {8, 9}, {<<>>, <<PlistDocument>>},
                        {MethodAppStore}, {<<>>, <<"T1">>}, {TRUE}),
                {DefaultProvisionURL},
                Archives({FALSE}, {FALSE}),
                {<<CertOne>>},
                {<<>>, <<ProfDist>>, <<ProfDev, ProfManaged>>},
                OneDisk)

\* Two runs over the same inputs.
InitTwice ==
    InitWith(Configs({ExportProductApp}, {9}, {<<>>}, {MethodAppStore}, {<<>>}, {TRUE}),
             {""},
             Archives(BOOLEAN, {FALSE}),
             DistinctSeqs({CertOne, CertTwo}, MaxCerts),
             DistinctSeqs({ProfDist, ProfManaged, ProfDistWild}, MaxProfiles),
             OneDisk)

\* The texts of the team identifier and of the override an operator may enter.
TeamTexts ==
    {<<>>, <<"T1">>, <<" ", "T1", "\n">>, <<" ", "\t">>, <<"T1", " ", "X">>}

OverrideTexts ==
    {<<>>, <<" ", "\n">>, <<PlistDocument>>,
     <<"\n", PlistRoot, "\n", PlistBody, "\n", PlistEnd, " ">>,
     <<PlistRoot, PlistBody>>, <<" ", PlistRoot>>}

\* The whole step in breadth: every text of the inputs, every content of the
\* export directory, a few store contents.
InitStep ==
    InitWith(Configs({ExportProductApp}, {13}, OverrideTexts,
                     {MethodAppStore, MethodDevelopment}, TeamTexts, {TRUE}),
             {""},
             Archives({FALSE}, {FALSE}),
             {<<CertOne>>},
             {<<>>, <<ProfDist>>},
             Disks({<<>>, <<"App.ipa">>, <<"App.ipa", "Clip.ipa">>},
                   {<<>>, <<"Old.ipa">>},
                   {<<>>, <<"App.app.dSYM">>},
                   ExportOutcomes, ExportFailures))

-----------------------------------------------------------------------------
(* Step.Run (src/main.go) *)

genVars == <<certs, profs, codeSignGroups, iosCodeSignGroups, defaultProfile,
             exportTeamID, exportCodeSignIdentity, exportProfileMapping,
             exportCodeSignStyle, trail>>
worldVars == <<inputs, disk, defaultProfileURL, archive, installedCerts, installedProfs>>
inputVars == <<worldVars, config>>
runVars == <<runNo, prevContent>>
outVars == <<processErr, out, exportErr, deployDir, envs, exitCode>>

Fail(message) ==
    /\ err' = message
    /\ pc' = "RunReturned"

\* main.go:396-404
ParseExportProduct(product) ==
    CASE product = "app" -> [product |-> ExportProductApp, err |-> ""]
      [] product = "app-clip" -> [product |-> ExportProductAppClip, err |-> ""]
      [] OTHER -> [product |-> "", err |-> "unkown method"]

\* Variant: the override is not parsed.
ExportOptionsPlistContentUnchecked(content) == ""

\* main.go:109-114
ExportOptionsPlistContentError(content) ==
    IF content # "" /\ ~PlistUnmarshal(content)
    THEN "issue with input ExportOptionsPlistContent"
    ELSE ""

\* main.go:88-143: the first error ProcessInputs meets, "" when there is none;
\* parsed: stepconf read the inputs, found: the Xcode version was determined
ProcessInputsError(in, parsed, found) ==
    CASE ~parsed -> "issue with input"
      [] ParseExportProduct(in.productToDistribute).err # "" ->
             "failed to parse export product option"
      [] ExportOptionsPlistContentError(Join(TrimSpace(in.exportOptionsPlistContent))) # "" ->
             ExportOptionsPlistContentError(Join(TrimSpace(in.exportOptionsPlistContent)))
      [] ~found -> "failed to determine Xcode version"
      [] OTHER -> ""

\* main.go:132-142: the Config returned without error
ProcessedConfig(in) ==
    [productToDistribute |-> ParseExportProduct(in.productToDistribute).product,
     xcodeMajorVersion |-> in.xcodeMajorVersion,
     exportOptionsPlistContent |-> Join(TrimSpace(in.exportOptionsPlistContent)),
     distributionMethod |-> in.distributionMethod,
     teamID |-> Join(TrimSpace(in.teamID)),
     uploadBitcode |-> in.uploadBitcode,
     compileBitcode |-> in.compileBitcode,
     manageVersionAndBuildNumber |-> in.manageVersionAndBuildNumber]

\* main.go:102-120: the warnings about removed white space
TrimWarnings(in, parsed) ==
    LET reachedOverride ==
            parsed /\ ParseExportProduct(in.productToDistribute).err = ""
        override == in.exportOptionsPlistContent
        reachedTeam ==
            reachedOverride
                /\ ExportOptionsPlistContentError(Join(TrimSpace(override))) = ""
    IN  (IF reachedOverride /\ TrimSpace(override) # override
         THEN {"ExportOptionsPlistContent contains leading and trailing white space"}
         ELSE {})
        \cup
        (IF reachedTeam /\ TrimSpace(in.teamID) # in.teamID
         THEN {"TeamID contains leading and trailing white space"}
         ELSE {})

\* main.go:88-143 and 319-322
ProcessInputs ==
    /\ pc = "ProcessInputs"
    /\ \E parsed, found \in BOOLEAN :
          LET e == ProcessInputsError(inputs, parsed, found)
          IN  /\ processErr' = e
              /\ config' = IF e = "" THEN ProcessedConfig(inputs) ELSE ZeroConfig
              /\ pc' = IF e = "" THEN "NewIosArchive" ELSE "StepReturned"
              /\ logs' = logs \cup TrimWarnings(inputs, parsed)
    /\ UNCHANGED <<worldVars, genVars, runVars, exportOptionsContent, exportOptionsFile,
                   exportInvoked, err, out, exportErr, deployDir, envs, exitCode>>

\* main.go:158-161
NewIosArchive ==
    /\ pc = "NewIosArchive"
    /\ \E parsed \in BOOLEAN :
          IF parsed THEN pc' = "ClipGuard" /\ err' = err
                    ELSE Fail("failed to parse archive")
    /\ UNCHANGED <<inputVars, genVars, runVars, outVars, exportOptionsContent,
                   exportOptionsFile, exportInvoked, logs>>

\* Variant: the clip's presence is checked before the Xcode version.
ClipGuardErrorPresenceFirst(cfg, a) ==
    IF cfg.productToDistribute = ExportProductAppClip
    THEN IF ~a.hasClip
         THEN "xcarchive does not contain an App Clip"
         ELSE IF cfg.xcodeMajorVersion < 12
              THEN "exporting an App Clip requires Xcode 12 or a later version"
              ELSE ""
    ELSE ""

\* main.go:167-175
ClipGuardError(cfg, a) ==
    IF cfg.productToDistribute = ExportProductAppClip
    THEN IF cfg.xcodeMajorVersion < 12
         THEN "exporting an App Clip requires Xcode 12 or a later version"
         ELSE IF ~a.hasClip
              THEN "xcarchive does not contain an App Clip"
              ELSE ""
    ELSE ""

ClipGuard ==
    /\ pc = "ClipGuard"
    /\ IF ClipGuardError(config, archive) # ""
       THEN Fail(ClipGuardError(config, archive))
       ELSE pc' = "ExportOptions" /\ err' = err
    /\ UNCHANGED <<inputVars, genVars, runVars, outVars, exportOptionsContent,
                   exportOptionsFile, exportInvoked, logs>>

\* Variant: the options are generated whether there is an override or not.
ExportOptionsBranchGenerating ==
    /\ pc = "ExportOptions"
    /\ exportOptionsFile' = exportOptionsFile
    /\ err' = err
    /\ pc' = IF config.xcodeMajorVersion >= 9 THEN "InstalledCertificates" ELSE "Synthesize"
    /\ UNCHANGED <<inputVars, genVars, runVars, outVars, exportOptionsContent, exportInvoked, logs>>

\* Variant: the stores are read whatever the Xcode version.
ExportOptionsBranchUngated ==
    /\ pc = "ExportOptions"
    /\ IF config.exportOptionsPlistContent # ""
       THEN \E written \in BOOLEAN :
               IF written
               THEN /\ exportOptionsFile' = TextFile(config.exportOptionsPlistContent)
                    /\ pc' = "ExportCommand"
                    /\ err' = err
               ELSE /\ exportOptionsFile' = exportOptionsFile
                    /\ Fail("failed to write export options to file")
       ELSE /\ exportOptionsFile' = exportOptionsFile
            /\ IF config.distributionMethod \notin Methods
               THEN Fail("failed to parse export options")
               ELSE /\ err' = err
                    /\ pc' = "InstalledCertificates"
    /\ UNCHANGED <<inputVars, genVars, runVars, outVars, exportOptionsContent, exportInvoked, logs>>

\* main.go:187-198: the override is written as it is, otherwise the options
\* are generated (utils.go:62-86)
ExportOptionsBranch ==
    /\ pc = "ExportOptions"
    /\ IF config.exportOptionsPlistContent # ""
       THEN \E written \in BOOLEAN :
               IF written
               THEN /\ exportOptionsFile' = TextFile(config.exportOptionsPlistContent)
                    /\ pc' = "ExportCommand"
                    /\ err' = err
               ELSE /\ exportOptionsFile' = exportOptionsFile
                    /\ Fail("failed to write export options to file")
       ELSE /\ exportOptionsFile' = exportOptionsFile
            /\ IF config.distributionMethod \notin Methods
               THEN Fail("failed to parse export options")
               ELSE /\ err' = err
                    /\ pc' = IF config.xcodeMajorVersion >= 9
                             THEN "InstalledCertificates" ELSE "Synthesize"
    /\ UNCHANGED <<inputVars, genVars, runVars, outVars, exportOptionsContent, exportInvoked, logs>>

-----------------------------------------------------------------------------
(* generateExportOptionsPlist (src/utils.go), as the run executes it *)

Step(name, before, after) == [step |-> name, before |-> before, after |-> after]

\* utils.go:105-109
InstalledCertificates ==
    /\ pc = "InstalledCertificates"
    /\ \E listed \in BOOLEAN :
          IF listed
          THEN /\ certs' = FilterValidCertificateInfos(installedCerts)
               /\ pc' = "InstalledProfiles"
               /\ err' = err
          ELSE /\ certs' = certs
               /\ Fail("failed to get installed certificates")
    /\ UNCHANGED <<inputVars, runVars, outVars, profs, codeSignGroups, iosCodeSignGroups,
                   defaultProfile, exportTeamID, exportCodeSignIdentity,
                   exportProfileMapping, exportCodeSignStyle, trail,
                   exportOptionsContent, exportOptionsFile, exportInvoked, logs>>

\* Variant: a failed enumeration counts as an empty store.
InstalledProvisioningProfilesOrNone ==
    /\ pc = "InstalledProfiles"
    /\ \E listed \in BOOLEAN :
          /\ profs' = IF listed THEN installedProfs ELSE <<>>
          /\ err' = IF listed THEN err ELSE "failed to get installed provisioning profiles"
    /\ pc' = "CreateGroups"
    /\ UNCHANGED <<inputVars, runVars, outVars, certs, codeSignGroups, iosCodeSignGroups,
                   defaultProfile, exportTeamID, exportCodeSignIdentity,
                   exportProfileMapping, exportCodeSignStyle, trail,
                   exportOptionsContent, exportOptionsFile, exportInvoked, logs>>

\* utils.go:116-119
InstalledProvisioningProfiles ==
    /\ pc = "InstalledProfiles"
    /\ \E listed \in BOOLEAN :
          IF listed
          THEN /\ profs' = installedProfs
               /\ pc' = "CreateGroups"
               /\ err' = err
          ELSE /\ profs' = profs
               /\ Fail("failed to get installed provisioning profiles")
    /\ UNCHANGED <<inputVars, runVars, outVars, certs, codeSignGroups, iosCodeSignGroups,
                   defaultProfile, exportTeamID, exportCodeSignIdentity,
                   exportProfileMapping, exportCodeSignStyle, trail,
                   exportOptionsContent, exportOptionsFile, exportInvoked, logs>>

\* One resolution step: replaces the candidate set and records it.
Resolve(name, after, next, diagnostics) ==
    /\ codeSignGroups' = after
    /\ trail' = Append(trail, Step(name, codeSignGroups, after))
    /\ logs' = logs \cup diagnostics
    /\ pc' = next
    /\ UNCHANGED <<inputVars, runVars, outVars, certs, profs, iosCodeSignGroups, defaultProfile,
                   exportTeamID, exportCodeSignIdentity, exportProfileMapping,
                   exportCodeSignStyle, exportOptionsContent, exportOptionsFile,
                   exportInvoked, err>>

\* utils.go:126-130
CreateGroups ==
    /\ pc = "CreateGroups"
    /\ LET groups == CreateSelectableCodeSignGroups(certs, profs, BundleIDs(archive))
       IN  Resolve("seed", groups, "EntitlementsFilter",
                   IF Len(groups) = 0
                   THEN {"Failed to find code signing groups for specified export method"}
                   ELSE {})

\* utils.go:137-151
EntitlementsFilter ==
    /\ pc = "EntitlementsFilter"
    /\ Resolve("entitlements",
               EntitlementsStep(codeSignGroups, BundleIDEntitlementsMap(archive)),
               "ExportMethodFilter", {})

\* utils.go:153-160
ExportMethodFilter ==
    /\ pc = "ExportMethodFilter"
    /\ Resolve("export-method",
               ExportMethodStep(codeSignGroups, config.distributionMethod),
               "TeamFilter", {})

\* Variant: the team filter is run on the seed.
TeamFilterOnSeed ==
    /\ pc = "TeamFilter"
    /\ Resolve("team", TeamStep(trail[1].after, config.teamID),
               "NotXcodeManagedFilter", {})

\* utils.go:162-171
TeamFilter ==
    /\ pc = "TeamFilter"
    /\ Resolve("team", TeamStep(codeSignGroups, config.teamID),
               "NotXcodeManagedFilter", {})

\* utils.go:173-184
NotXcodeManagedFilter ==
    /\ pc = "NotXcodeManagedFilter"
    /\ Resolve("archive-origin",
               NotXcodeManagedStep(codeSignGroups, archive.profileName),
               "DefaultProfile", {})

\* utils.go:314-356: the download or the parsing fails, or yields a profile
DefaultProvisioningProfiles ==
    {[ok |-> FALSE, err |-> "no default profile"]}
        \cup {[ok |-> TRUE, profile |-> p] : p \in DefaultProfiles}

\* utils.go:186-201
DefaultProfileExclusion ==
    /\ pc = "DefaultProfile"
    /\ \E fetched \in IF config.teamID = "" /\ defaultProfileURL # ""
                       THEN DefaultProvisioningProfiles ELSE {defaultProfile} :
          /\ defaultProfile' = fetched
          /\ codeSignGroups' = DefaultProfileStep(codeSignGroups, config.teamID,
                                                  defaultProfileURL, fetched)
          /\ trail' = Append(trail, Step("default-profile", codeSignGroups,
                                         codeSignGroups'))
    /\ pc' = "Narrow"
    /\ UNCHANGED <<inputVars, runVars, outVars, certs, profs, iosCodeSignGroups,
                   exportTeamID, exportCodeSignIdentity, exportProfileMapping,
                   exportCodeSignStyle, exportOptionsContent, exportOptionsFile,
                   exportInvoked, err, logs>>

\* utils.go:203-216
Narrow ==
    /\ pc = "Narrow"
    /\ iosCodeSignGroups' = NarrowGroups(codeSignGroups)
    /\ logs' = logs \cup
          IF \E i \in 1..Len(codeSignGroups) :
                \E b \in DOMAIN codeSignGroups[i].bundleIDProfilesMap :
                    Len(codeSignGroups[i].bundleIDProfilesMap[b]) = 0
          THEN {"No profile available to sign target"} ELSE {}
    /\ pc' = "Select"
    /\ UNCHANGED <<inputVars, runVars, outVars, certs, profs, codeSignGroups, defaultProfile,
                   exportTeamID, exportCodeSignIdentity, exportProfileMapping,
                   exportCodeSignStyle, trail, exportOptionsContent, exportOptionsFile,
                   exportInvoked, err>>

\* Variant: the team is read from the last group, the rest from the first.
SelectTeamOfLastGroup ==
    /\ pc = "Select"
    /\ IF Len(iosCodeSignGroups) > 0
       THEN LET codeSignGroup == SelectGroup(iosCodeSignGroups)
                m == codeSignGroup.bundleIDProfileMap
            IN  \E order \in VisitOrders(DOMAIN m) :
                   LET result == SignStyleLoop(order, 1, m, [style |-> "", mixed |-> FALSE])
                   IN  /\ exportTeamID' =
                             iosCodeSignGroups[Len(iosCodeSignGroups)].certificate.teamID
                       /\ exportCodeSignIdentity' = codeSignGroup.certificate.commonName
                       /\ exportProfileMapping' = [b \in DOMAIN m |-> m[b].name]
                       /\ exportCodeSignStyle' = result.style
                       /\ logs' = logs
                            \cup (IF Len(iosCodeSignGroups) > 1
                                  THEN {"Multiple code signing groups found"} ELSE {})
                            \cup (IF result.mixed
                                  THEN {"Both xcode managed and NON xcode managed profiles"}
                                  ELSE {})
       ELSE /\ logs' = logs \cup {"Failed to find Codesign Groups"}
            /\ UNCHANGED <<exportTeamID, exportCodeSignIdentity,
                           exportProfileMapping, exportCodeSignStyle>>
    /\ pc' = "Synthesize"
    /\ UNCHANGED <<inputVars, runVars, outVars, certs, profs, codeSignGroups, iosCodeSignGroups,
                   defaultProfile, trail, exportOptionsContent, exportOptionsFile,
                   exportInvoked, err>>

\* utils.go:226-257; range visits the keys of the group's map in any order
Select ==
    /\ pc = "Select"
    /\ IF Len(iosCodeSignGroups) > 0
       THEN LET codeSignGroup == SelectGroup(iosCodeSignGroups)
                m == codeSignGroup.bundleIDProfileMap
            IN  \E order \in VisitOrders(DOMAIN m) :
                   LET result == SignStyleLoop(order, 1, m, [style |-> "", mixed |-> FALSE])
                   IN  /\ exportTeamID' = codeSignGroup.certificate.teamID
                       /\ exportCodeSignIdentity' = codeSignGroup.certificate.commonName
                       /\ exportProfileMapping' = [b \in DOMAIN m |-> m[b].name]
                       /\ exportCodeSignStyle' = result.style
                       /\ logs' = logs
                            \cup (IF Len(iosCodeSignGroups) > 1
                                  THEN {"Multiple code signing groups found"} ELSE {})
                            \cup (IF result.mixed
                                  THEN {"Both xcode managed and NON xcode managed profiles"}
                                  ELSE {})
       ELSE /\ logs' = logs \cup {"Failed to find Codesign Groups"}
            /\ UNCHANGED <<exportTeamID, exportCodeSignIdentity,
                           exportProfileMapping, exportCodeSignStyle>>
    /\ pc' = "Synthesize"
    /\ UNCHANGED <<inputVars, runVars, outVars, certs, profs, codeSignGroups, iosCodeSignGroups,
                   defaultProfile, trail, exportOptionsContent, exportOptionsFile,
                   exportInvoked, err>>

\* utils.go:260-311
Synthesize ==
    /\ pc = "Synthesize"
    /\ exportOptionsContent' =
          String(ExportOptions(config, archive,
                     [mapping |-> exportProfileMapping, identity |-> exportCodeSignIdentity,
                      teamID |-> exportTeamID, style |-> exportCodeSignStyle]))
    /\ pc' = "WriteExportOptions"
    /\ UNCHANGED <<inputVars, runVars, outVars, genVars, exportOptionsFile, exportInvoked,
                   err, logs>>

-----------------------------------------------------------------------------
(* Step.Run, after the options (src/main.go) *)

\* main.go:200-204
WriteExportOptions ==
    /\ pc = "WriteExportOptions"
    /\ \E written \in BOOLEAN :
          IF written
          THEN /\ exportOptionsFile' = exportOptionsContent
               /\ pc' = "ExportCommand"
               /\ err' = err
          ELSE /\ exportOptionsFile' = exportOptionsFile
               /\ Fail("failed to write export options to file")
    /\ UNCHANGED <<inputVars, runVars, outVars, genVars, exportOptionsContent, exportInvoked, logs>>

ExportDir == "<tmp>/__export__"
DeployDir == "<deploy>"
LogsDir == "<tmp>/App.xcdistributionlogs"
ArchiveName == "App"

\* main.go:209-249: the RunOut and the error Run returns
RunResult(outcome, d) ==
    CASE outcome = "no-tmp-dir" ->
             [out |-> ZeroRunOut, err |-> "failed to create tmp dir"]
      [] outcome = "failed" ->
             [out |-> ZeroRunOut, err |-> "export failed"]
      [] outcome = "failed-with-logs" ->
             [out |-> [ZeroRunOut EXCEPT !.ideDistrubutionLogDir = LogsDir],
              err |-> "export failed"]
      [] outcome = "no-dsyms" ->
             [out |-> ZeroRunOut, err |-> "failed to export dsym"]
      [] outcome = "exported" ->
             [out |-> [ideDistrubutionLogDir |-> "", tmpDir |-> ExportDir,
                       appDSYMs |-> d.dsyms, archiveName |-> ArchiveName],
              err |-> ""]

\* main.go:209-249
ExportCommand ==
    /\ pc = "ExportCommand"
    /\ \E outcome \in ExportOutcomes \cap disk.outcomes :
          /\ exportInvoked' = (outcome # "no-tmp-dir")
          /\ out' = RunResult(outcome, disk).out
          /\ err' = RunResult(outcome, disk).err
          /\ logs' = logs \cup
                IF outcome \in {"failed", "failed-with-logs"}
                THEN {"please check the xcdistributionlogs"} ELSE {}
    /\ pc' = "RunReturned"
    /\ UNCHANGED <<inputVars, runVars, genVars, exportOptionsContent, exportOptionsFile,
                   processErr, exportErr, deployDir, envs, exitCode>>

-----------------------------------------------------------------------------
(* Step.ExportOutput and RunStep (src/main.go) *)

\* filepath.Join and filepath.Base on a path kept as directory and base name
FilePath(dir, base) == [dir |-> dir, base |-> base]
Base(path) == path.base

\* Variant: only the first .ipa file of the export directory is found.
GlobFirstIpa(tmpDir, d) ==
    IF tmpDir = ExportDir /\ Len(d.exported) > 0
    THEN <<FilePath(tmpDir, d.exported[1])>> ELSE <<>>

\* main.go:263-264: filepath.Glob(filepath.Join(opts.TmpDir, "*.ipa")); with
\* an empty TmpDir the pattern is relative to the working directory.
GlobIpas(tmpDir, d) ==
    LET names == IF tmpDir = ExportDir THEN d.exported
                 ELSE IF tmpDir = "" THEN d.workDir ELSE <<>>
    IN  [i \in 1..Len(names) |-> FilePath(tmpDir, names[i])]

\* main.go:262-288: exportedIPAPath once every file is copied
ExportedIPAPath(ipas, deploy) ==
    IF Len(ipas) = 1
    THEN FilePath(deploy, Base(ipas[1]))
    ELSE ipas[Len(ipas)]

\* main.go:252-309: error, files put into the deploy directory, exported
\* outputs and warnings; failAt is the copy that fails when failure = "copy"
ExportOutputResult(opts, d, failure, failAt) ==
    LET nothing == [k \in {} |-> ""]
        ipas == GlobIpas(opts.tmpDir, d)
        copied(n) == {Base(ipas[i]) : i \in 1..n}
        ipaPath == ExportedIPAPath(ipas, opts.deployDir)
        dsymZip == opts.archiveName \o ".dSYM.zip"
    IN  IF opts.ideDistrubutionLogDir # ""
        THEN IF failure = "zip"
             THEN [err |-> "", files |-> {}, envs |-> nothing,
                   logs |-> {"Failed to export BITRISE_IDEDISTRIBUTION_LOGS_PATH"}]
             ELSE [err |-> "", files |-> {"xcodebuild.xcdistributionlogs.zip"},
                   envs |-> (bitriseIDEDistributionLogsPthEnvKey :>
                               FilePath(opts.deployDir, "xcodebuild.xcdistributionlogs.zip")),
                   logs |-> {}]
        ELSE IF Len(ipas) = 0
        THEN [err |-> "no ipa found with pattern", files |-> {}, envs |-> nothing,
              logs |-> {}]
        ELSE LET many == IF Len(ipas) > 1 THEN {"More than 1 .ipa file found"} ELSE {}
             IN  IF failure = "copy"
                 THEN [err |-> "failed to copy", files |-> copied(failAt - 1),
                       envs |-> nothing, logs |-> many]
                 ELSE IF failure = "envman"
                 THEN [err |-> "failed to export BITRISE_IPA_PATH",
                       files |-> copied(Len(ipas)), envs |-> nothing, logs |-> many]
                 ELSE IF Len(opts.appDSYMs) = 0
                 THEN [err |-> "", files |-> copied(Len(ipas)),
                       envs |-> (bitriseIPAPthEnvKey :> ipaPath),
                       logs |-> many \cup {"No dSYM was found in the archive"}]
                 ELSE IF failure = "zip"
                 THEN [err |-> "failed to export BITRISE_DSYM_PATH",
                       files |-> copied(Len(ipas)),
                       envs |-> (bitriseIPAPthEnvKey :> ipaPath), logs |-> many]
                 ELSE [err |-> "", files |-> copied(Len(ipas)) \cup {dsymZip},
                       envs |-> (bitriseIPAPthEnvKey :> ipaPath)
                                  @@ (bitriseDSYMPthEnvKey :>
                                        FilePath(opts.deployDir, dsymZip)),
                       logs |-> many]

\* Variant: the distribution logs are not looked at.
ExportOutputIgnoringLogs ==
    /\ pc = "RunReturned"
    /\ LET opts == [ideDistrubutionLogDir |-> "",
                    tmpDir |-> out.tmpDir, deployDir |-> DeployDir,
                    appDSYMs |-> out.appDSYMs, archiveName |-> out.archiveName]
           copies == Len(GlobIpas(opts.tmpDir, disk))
       IN  \E failure \in ExportFailures \cap disk.failures :
              \E failAt \in 1..(IF failure = "copy" /\ copies > 1 THEN copies ELSE 1) :
                 LET r == ExportOutputResult(opts, disk, failure, failAt)
                 IN  /\ exportErr' = r.err
                     /\ deployDir' = deployDir \cup r.files
                     /\ envs' = r.envs
                     /\ logs' = logs \cup r.logs
    /\ pc' = "StepReturned"
    /\ UNCHANGED <<inputVars, runVars, genVars, exportOptionsContent, exportOptionsFile,
                   exportInvoked, err, processErr, out, exitCode>>

\* main.go:324-334: Run's output is handed to ExportOutput whatever Run returned
ExportOutput ==
    /\ pc = "RunReturned"
    /\ LET opts == [ideDistrubutionLogDir |-> out.ideDistrubutionLogDir,
                    tmpDir |-> out.tmpDir, deployDir |-> DeployDir,
                    appDSYMs |-> out.appDSYMs, archiveName |-> out.archiveName]
           copies == Len(GlobIpas(opts.tmpDir, disk))
       IN  \E failure \in ExportFailures \cap disk.failures :
              \E failAt \in 1..(IF failure = "copy" /\ copies > 1 THEN copies ELSE 1) :
                 LET r == ExportOutputResult(opts, disk, failure, failAt)
                 IN  /\ exportErr' = r.err
                     /\ deployDir' = deployDir \cup r.files
                     /\ envs' = r.envs
                     /\ logs' = logs \cup r.logs
    /\ pc' = "StepReturned"
    /\ UNCHANGED <<inputVars, runVars, genVars, exportOptionsContent, exportOptionsFile,
                   exportInvoked, err, processErr, out, exitCode>>

\* Variant: a resolution that found no group counts as a failure.
ExitCodeOfResolution(processError, runError, exportError) ==
    IF \/ processError # "" \/ runError # "" \/ exportError # ""
       \/ "Failed to find Codesign Groups" \in logs
    THEN 1 ELSE 0

\* main.go:319-322, 336-343 and 346-351
ExitCode(processError, runError, exportError) ==
    IF processError # "" \/ runError # "" \/ exportError # "" THEN 1 ELSE 0

\* main.go:346-351
Exit ==
    /\ pc = "StepReturned"
    /\ exitCode' = ExitCode(processErr, err, exportErr)
    /\ logs' = logs \cup
          IF ExitCode(processErr, err, exportErr) # 0
          THEN {IF processErr # "" THEN processErr
                ELSE IF err # "" THEN err ELSE exportErr}
          ELSE {}
    /\ pc' = "Exited"
    /\ UNCHANGED <<inputVars, runVars, genVars, exportOptionsContent, exportOptionsFile,
                   exportInvoked, err, processErr, out, exportErr, deployDir, envs>>

\* A second run of the step over the same archive, stores and configuration.
Rerun ==
    /\ pc = "RunReturned"
    /\ runNo = 1
    /\ runNo' = 2
    /\ prevContent' = exportOptionsContent
    /\ pc' = "NewIosArchive"
    /\ certs' = <<>>
    /\ profs' = <<>>
    /\ codeSignGroups' = <<>>
    /\ iosCodeSignGroups' = <<>>
    /\ defaultProfile' = [ok |-> FALSE]
    /\ exportTeamID' = ""
    /\ exportCodeSignIdentity' = ""
    /\ exportProfileMapping' = EmptyMapping
    /\ exportCodeSignStyle' = ""
    /\ exportOptionsContent' = NoContent
    /\ exportOptionsFile' = NoContent
    /\ exportInvoked' = FALSE
    /\ err' = ""
    /\ logs' = {}
    /\ trail' = <<>>
    /\ UNCHANGED <<inputVars, outVars>>

Next ==
    \/ ProcessInputs
    \/ NewIosArchive
    \/ ClipGuard
    \/ ExportOptionsBranch
    \/ InstalledCertificates
    \/ InstalledProvisioningProfiles
    \/ CreateGroups
    \/ EntitlementsFilter
    \/ ExportMethodFilter
    \/ TeamFilter
    \/ NotXcodeManagedFilter
    \/ DefaultProfileExclusion
    \/ Narrow
    \/ Select
    \/ Synthesize
    \/ WriteExportOptions
    \/ ExportCommand
    \/ ExportOutput
    \/ Exit

Spec == Init /\ [][Next]_vars

SpecRun == InitRun /\ [][Next]_vars

SpecStep == InitStep /\ [][Next]_vars

\* Candidate sets as narrowing can be handed them: up to MaxCerts groups of
\* different certificates, every bundle ID of the archive with a list of up
\* to MaxProfiles profiles that match it and embed the certificate; a list
\* may be empty.
SelectableCodeSignGroups(bundleIDs) ==
    LET lists == DistinctSeqs({ProfDist, ProfManaged}, MaxProfiles)
        owners == DistinctSeqs({CertOne, CertTwo}, MaxCerts)
    IN  UNION {[1..Len(o) -> [certificate : Range(o), bundleIDProfilesMap : [bundleIDs -> lists]]] :
                  o \in owners}

\* Narrowing and what follows it, on every candidate set.
InitNarrow ==
    /\ inputs \in Configs({ExportProductApp}, {9}, {<<>>}, {MethodAppStore}, {<<>>}, {TRUE})
    /\ disk \in OneDisk
    /\ config = ProcessedConfig(inputs)
    /\ defaultProfileURL = ""
    /\ archive \in Archives({TRUE}, {FALSE})
    /\ installedCerts = <<CertOne, CertTwo>>
    /\ installedProfs = <<ProfDist, ProfManaged>>
    /\ pc = "Narrow"
    /\ certs = installedCerts
    /\ profs = installedProfs
    /\ codeSignGroups \in
          {groups \in SelectableCodeSignGroups(BundleIDs(archive)) :
              /\ \A i, j \in 1..Len(groups) :
                    i # j => groups[i].certificate # groups[j].certificate
              /\ \A i \in 1..Len(groups) :
                    \A b \in BundleIDs(archive) :
                        \A p \in Range(groups[i].bundleIDProfilesMap[b]) :
                            /\ Glob(p.bundleID, b)
                            /\ groups[i].certificate.serial \in p.developerCertificates}
    /\ iosCodeSignGroups = <<>>
    /\ defaultProfile = [ok |-> FALSE]
    /\ exportTeamID = ""
    /\ exportCodeSignIdentity = ""
    /\ exportProfileMapping = EmptyMapping
    /\ exportCodeSignStyle = ""
    /\ exportOptionsContent = NoContent
    /\ exportOptionsFile = NoContent
    /\ exportInvoked = FALSE
    /\ err = ""
    /\ processErr = ""
    /\ out = ZeroRunOut
    /\ exportErr = ""
    /\ deployDir = {}
    /\ envs = [k \in {} |-> ""]
    /\ exitCode = NotExited
    /\ logs = {}
    /\ trail = <<>>
    /\ runNo = 1
    /\ prevContent = NoContent

\* utils.go:203-311 and what Run and RunStep do after it
NextNarrow ==
    \/ Narrow
    \/ Select
    \/ Synthesize
    \/ WriteExportOptions
    \/ ExportCommand
    \/ ExportOutput
    \/ Exit

SpecNarrow == InitNarrow /\ [][NextNarrow]_vars

SpecTwice == InitTwice /\ [][Next \/ Rerun]_vars

-----------------------------------------------------------------------------
(* Properties *)

SigningKeys == {"provisioningProfiles", "signingCertificate", "teamID", "signingStyle"}

FilterSteps == {"entitlements", "export-method", "team", "archive-origin"}

GroupsOf(groups) == {groups[i] : i \in 1..Len(groups)}

\* generateExportOptionsPlist has returned its document.
Generated == exportOptionsContent # NoContent

\* Final selection has run and found a group.
GroupSelected == Len(iosCodeSignGroups) > 0 /\ pc # "Select"

\* Final selection has run and found no group.
NoGroupSelected == "Failed to find Codesign Groups" \in logs

ArchiveManaged == IsXcodeManaged(archive.profileName)

\* C1: two runs over the same certificates, profiles, archive and configuration
\* return the same export-options document (the same certificate, the same
\* mapping, the same signing style).
C1_SameDocumentOnRerun ==
    (runNo = 2 /\ Generated /\ prevContent # NoContent)
        => exportOptionsContent = prevContent

\* C2: once a group is selected, every pair (bundle ID, profile) of its mapping
\* has a profile whose bundle-identifier pattern matches the bundle ID and that
\* embeds the selected certificate; the document names exactly these.
C2_MappingMatchesTargetAndCertificate ==
    GroupSelected =>
        \E g \in GroupsOf(iosCodeSignGroups) :
            /\ exportCodeSignIdentity = g.certificate.commonName
            /\ DOMAIN exportProfileMapping = DOMAIN g.bundleIDProfileMap
            /\ \A b \in DOMAIN g.bundleIDProfileMap :
                  LET p == g.bundleIDProfileMap[b]
                  IN  /\ exportProfileMapping[b] = p.name
                      /\ Glob(p.bundleID, b)
                      /\ g.certificate.serial \in p.developerCertificates

C2_Witness ==
    /\ GroupSelected
    /\ Cardinality(DOMAIN exportProfileMapping) = 2
    /\ Len(installedProfs) = 2

\* C3: with a team identifier supplied, every group left by the team filter has
\* a certificate of that team, whatever set entered the filter.
C3_TeamFilterKeepsOnlyTeam ==
    \A i \in 1..Len(trail) :
        (trail[i].step = "team" /\ config.teamID # "") =>
            \A g \in GroupsOf(trail[i].after) : g.certificate.teamID = config.teamID

C3_Witness ==
    \E i \in 1..Len(trail) :
        /\ trail[i].step = "team"
        /\ config.teamID # ""
        /\ Len(trail[i].before) > 0
        /\ \A g \in GroupsOf(trail[i].before) : g.certificate.teamID # config.teamID
        /\ Len(trail[i].after) = 0

\* C4 as claimed: none of the four filter steps empties a non-empty candidate
\* set, so a non-empty seed is non-empty when narrowing starts.
C4_FilterSkippedWhenEmpty ==
    /\ \A i \in 1..Len(trail) :
          (trail[i].step \in FilterSteps /\ Len(trail[i].before) > 0)
              => Len(trail[i].after) > 0
    /\ (pc = "Narrow" /\ Len(trail[1].after) > 0) => Len(codeSignGroups) > 0

\* What each filter step asks of a group.
Qualifies(step, g) ==
    LET m == g.bundleIDProfilesMap
        some(Test(_, _)) ==
            \A b \in DOMAIN m : \E k \in 1..Len(m[b]) : Test(b, m[b][k])
    IN  CASE step = "entitlements" ->
                 some(LAMBDA b, p : archive.entitlements[b] \subseteq p.entitlements)
          [] step = "export-method" ->
                 some(LAMBDA b, p : p.exportType = config.distributionMethod)
          [] step = "team" ->
                 config.teamID = "" \/ g.certificate.teamID = config.teamID
          [] step = "archive-origin" ->
                 ArchiveManaged \/ some(LAMBDA b, p : ~IsXcodeManaged(p.name))

\* C4 amended: the four filter steps have no skip; after each of them the
\* candidates are exactly the groups that qualify, also when there is none.
\* Only the default-profile exclusion keeps a set it would empty.
C4_FiltersAppliedWithoutSkip ==
    \A i \in 1..Len(trail) :
        /\ trail[i].step \in FilterSteps =>
              {g.certificate : g \in GroupsOf(trail[i].after)} =
              {g.certificate : g \in {x \in GroupsOf(trail[i].before) :
                                          Qualifies(trail[i].step, x)}}
        /\ (trail[i].step = "default-profile" /\ Len(trail[i].before) > 0)
              => Len(trail[i].after) > 0

C4_Witness ==
    /\ pc = "Narrow"
    /\ Len(trail[1].after) > 0
    /\ Len(codeSignGroups) = 0

\* C5: when final selection finds no group (always so with no installed
\* profile), the document is returned without error and carries no profile
\* mapping, signing identity, team identifier or signing style.
C5_EmptyResolutionIsNotAnError ==
    /\ (NoGroupSelected /\ Generated) =>
          /\ DOMAIN exportOptionsContent \cap SigningKeys = {}
          /\ pc = "WriteExportOptions" => err = ""
    /\ (Len(installedProfs) = 0 /\ Generated /\ config.xcodeMajorVersion >= 9)
          => NoGroupSelected

C5_Witness ==
    /\ Len(installedProfs) = 0
    /\ Len(installedCerts) > 0
    /\ ArchiveManaged
    /\ NoGroupSelected
    /\ pc = "WriteExportOptions"

\* Position of a certificate in the enumeration of valid certificates.
CertIndex(c) == CHOOSE k \in 1..Len(certs) : certs[k] = c

\* C6: with two or more groups at final selection the first one is selected,
\* which is the one whose certificate comes first in the enumeration, the
\* ambiguity is logged and no error is raised.
C6_FirstGroupWinsWithWarning ==
    (GroupSelected /\ Len(iosCodeSignGroups) >= 2) =>
        LET g == iosCodeSignGroups[1]
        IN  /\ exportCodeSignIdentity = g.certificate.commonName
            /\ exportTeamID = g.certificate.teamID
            /\ exportProfileMapping =
                  [b \in DOMAIN g.bundleIDProfileMap |-> g.bundleIDProfileMap[b].name]
            /\ \A j \in 2..Len(iosCodeSignGroups) :
                  CertIndex(g.certificate) < CertIndex(iosCodeSignGroups[j].certificate)
            /\ "Multiple code signing groups found" \in logs
            /\ pc \in {"Synthesize", "WriteExportOptions"} => err = ""

C6_Witness ==
    /\ GroupSelected
    /\ Len(iosCodeSignGroups) >= 2
    /\ certs = <<CertTwo, CertOne>>
    /\ pc = "WriteExportOptions"

\* Scenario A: one valid certificate and one installed profile that matches
\* the single target, is of the requested method (app-store), grants the
\* target's entitlements and is not managed; no team override, archive not
\* managed, options generated.
ScenarioA ==
    /\ Len(FilterValidCertificateInfos(installedCerts)) = 1
    /\ Len(installedProfs) = 1
    /\ DOMAIN archive.entitlements = {MainBundleID}
    /\ Glob(installedProfs[1].bundleID, MainBundleID)
    /\ installedProfs[1].exportType = MethodAppStore
    /\ config.distributionMethod = MethodAppStore
    /\ archive.entitlements[MainBundleID] \subseteq installedProfs[1].entitlements
    /\ ~IsXcodeManaged(installedProfs[1].name)
    /\ config.teamID = ""
    /\ ~ArchiveManaged
    /\ Generated

ScenarioADocument ==
    LET c == FilterValidCertificateInfos(installedCerts)[1]
    IN  /\ {"teamID", "signingCertificate", "provisioningProfiles"}
              \subseteq DOMAIN exportOptionsContent
        /\ exportOptionsContent.teamID = c.teamID
        /\ exportOptionsContent.signingCertificate = c.commonName
        /\ exportOptionsContent.provisioningProfiles =
              (MainBundleID :> installedProfs[1].name)
        /\ "signingStyle" \notin DOMAIN exportOptionsContent

\* C7 as claimed: in scenario A the document names the certificate's team and
\* name, maps the target to the profile and leaves the signing style unset.
C7_ScenarioA ==
    ScenarioA => ScenarioADocument

\* C7 amended: the same, for Xcode 9 or later and a profile that embeds the
\* certificate.
C7_ScenarioAFromXcode9 ==
    ( /\ ScenarioA
      /\ config.xcodeMajorVersion >= 9
      /\ FilterValidCertificateInfos(installedCerts)[1].serial
            \in installedProfs[1].developerCertificates )
        => ScenarioADocument

C7_Witness ==
    /\ ScenarioA
    /\ config.xcodeMajorVersion >= 9
    /\ FilterValidCertificateInfos(installedCerts)[1].serial
          \in installedProfs[1].developerCertificates
    /\ GroupSelected
    /\ pc = "WriteExportOptions"

\* C8: the document carries a signing style exactly when the Xcode major
\* version is at least 9, the archive's profile was managed and the style
\* computed from the selected group is manual; the style is then "manual",
\* for every distribution method, and never "automatic".
C8_SigningStyleManualOnly ==
    Generated =>
        /\ "signingStyle" \in DOMAIN exportOptionsContent
              <=> ( /\ config.xcodeMajorVersion >= 9
                    /\ ArchiveManaged
                    /\ exportCodeSignStyle = "manual" )
        /\ "signingStyle" \in DOMAIN exportOptionsContent
              => exportOptionsContent.signingStyle = "manual"

C8_Witness ==
    /\ Generated
    /\ config.distributionMethod # MethodAppStore
    /\ "signingStyle" \in DOMAIN exportOptionsContent
    /\ exportOptionsContent.signingStyle = "manual"

ClipVersionError == "exporting an App Clip requires Xcode 12 or a later version"
ClipMissingError == "xcarchive does not contain an App Clip"

\* C10: for product app-clip, Run fails before any export options are
\* generated or written and before the export command is started when the
\* Xcode major version is below 12 or the archive has no clip; the version is
\* checked first; for product app neither check is made.
C10_AppClipGuard ==
    LET clip == config.productToDistribute = ExportProductAppClip
        old == config.xcodeMajorVersion < 12
    IN  /\ (clip /\ (old \/ ~archive.hasClip)) =>
              /\ pc \in {"NewIosArchive", "ClipGuard", "RunReturned", "StepReturned", "Exited"}
              /\ ~Generated
              /\ exportOptionsFile = NoContent
              /\ ~exportInvoked
              /\ pc = "RunReturned" => err # ""
        /\ (clip /\ old /\ pc = "RunReturned")
              => err \in {"failed to parse archive", ClipVersionError}
        /\ (clip /\ ~old /\ ~archive.hasClip /\ pc = "RunReturned")
              => err \in {"failed to parse archive", ClipMissingError}
        /\ ~clip => err \notin {ClipVersionError, ClipMissingError}

C10_Witness ==
    /\ config.productToDistribute = ExportProductAppClip
    /\ config.xcodeMajorVersion < 12
    /\ ~archive.hasClip
    /\ pc = "RunReturned"
    /\ err = ClipVersionError

\* The override as ProcessInputs keeps it.
TrimmedOverride == Join(TrimSpace(inputs.exportOptionsPlistContent))

Returned == pc \in {"StepReturned", "Exited"}

\* C11: an override that is not empty after trimming and is no property list
\* makes ProcessInputs return an error; the step exits non-zero, the archive
\* is never read, no export-options file is written and the export command
\* is never run.
C11_MalformedOverrideAbortsBeforeRun ==
    (TrimmedOverride # "" /\ ~PlistUnmarshal(TrimmedOverride)) =>
        /\ pc \in {"ProcessInputs", "StepReturned", "Exited"}
        /\ Returned => processErr # ""
        /\ pc = "Exited" => exitCode # 0
        /\ config = ZeroConfig
        /\ exportOptionsFile = NoContent
        /\ ~Generated
        /\ ~exportInvoked
        /\ err = "" /\ out = ZeroRunOut /\ deployDir = {}

C11_Witness ==
    /\ inputs.exportOptionsPlistContent = <<" ", PlistRoot>>
    /\ pc = "Exited"
    /\ processErr = "issue with input ExportOptionsPlistContent"
    /\ exitCode = 1

\* The positions inside generateExportOptionsPlist.
GeneratingPositions ==
    {"InstalledCertificates", "InstalledProfiles", "CreateGroups", "EntitlementsFilter",
     "ExportMethodFilter", "TeamFilter", "NotXcodeManagedFilter", "DefaultProfile",
     "Narrow", "Select", "Synthesize", "WriteExportOptions"}

\* C12: with a non-empty override the file handed to the export command holds
\* exactly the trimmed override and the options are never generated, whatever
\* the method, the team and the flags; with an empty override the file holds
\* the generated document.
C12_OverrideReplacesGeneration ==
    /\ config.exportOptionsPlistContent # "" =>
          /\ config.exportOptionsPlistContent = TrimmedOverride
          /\ pc \notin GeneratingPositions
          /\ ~Generated /\ trail = <<>> /\ certs = <<>> /\ profs = <<>>
          /\ exportOptionsFile \in {NoContent, TextFile(TrimmedOverride)}
          /\ exportInvoked => exportOptionsFile = TextFile(TrimmedOverride)
    /\ (config # ZeroConfig /\ config.exportOptionsPlistContent = "") =>
          /\ exportOptionsFile # NoContent
                => (Generated /\ exportOptionsFile = exportOptionsContent)
          /\ exportInvoked => exportOptionsFile # NoContent

C12_Witness ==
    /\ config.exportOptionsPlistContent = Join(<<PlistRoot, "\n", PlistBody, "\n", PlistEnd>>)
    /\ Len(inputs.exportOptionsPlistContent) > 5
    /\ config.teamID = "T1"
    /\ config.distributionMethod = MethodDevelopment
    /\ exportInvoked
    /\ exportOptionsFile = TextFile(config.exportOptionsPlistContent)

\* ProcessInputs has returned a Config without error.
Processed == pc # "ProcessInputs" /\ processErr = ""

OnlyWhiteSpace(text) == \A i \in 1..Len(text) : text[i] \in WhiteSpace

\* value is text without its leading and trailing white space.
IsTrimmed(text, value) ==
    \E i \in 1..Len(text) + 1 : \E j \in 0..Len(text) :
        /\ i <= j + 1
        /\ \A k \in 1..Len(text) : (k < i \/ k > j) => text[k] \in WhiteSpace
        /\ i <= j => (text[i] \notin WhiteSpace /\ text[j] \notin WhiteSpace)
        /\ value = Join(SubSeq(text, i, j))

\* C13: after ProcessInputs the team identifier and the override are the
\* inputs without leading and trailing white space; a white-space-only value
\* is empty, raises no error, leaves the team filter out and counts as no
\* override; every other field is as it was entered.
C13_TrimmedInputs ==
    /\ Processed =>
          /\ IsTrimmed(inputs.teamID, config.teamID)
          /\ IsTrimmed(inputs.exportOptionsPlistContent, config.exportOptionsPlistContent)
          /\ OnlyWhiteSpace(inputs.teamID) => config.teamID = ""
          /\ OnlyWhiteSpace(inputs.exportOptionsPlistContent)
                => config.exportOptionsPlistContent = ""
          /\ config.productToDistribute = inputs.productToDistribute
          /\ config.distributionMethod = inputs.distributionMethod
          /\ config.xcodeMajorVersion = inputs.xcodeMajorVersion
          /\ config.uploadBitcode = inputs.uploadBitcode
          /\ config.compileBitcode = inputs.compileBitcode
    /\ processErr = "issue with input ExportOptionsPlistContent"
          => ~OnlyWhiteSpace(inputs.exportOptionsPlistContent)
    /\ OnlyWhiteSpace(inputs.teamID) =>
          \A i \in 1..Len(trail) : trail[i].step = "team" => trail[i].after = trail[i].before
    /\ (OnlyWhiteSpace(inputs.exportOptionsPlistContent) /\ exportOptionsFile # NoContent)
          => (Generated /\ exportOptionsFile = exportOptionsContent)

C13_Witness ==
    /\ inputs.teamID = <<" ", "\t">>
    /\ inputs.exportOptionsPlistContent = <<" ", "\n">>
    /\ Len(trail) > 3
    /\ Len(trail[3].after) > 0
    /\ Generated
    /\ pc = "Exited"
    /\ exitCode = 0

CertificatesError == "failed to get installed certificates"
ProfilesError == "failed to get installed provisioning profiles"

\* C14: when listing the installed certificates or the installed profiles
\* fails, Run returns that error at once: nothing is listed again, no group is
\* built, no export-options file is written, the export command is not run
\* and the step exits non-zero.
C14_EnumerationFailureIsFatal ==
    /\ err \in {CertificatesError, ProfilesError} =>
          /\ pc \in {"RunReturned", "StepReturned", "Exited"}
          /\ ~Generated
          /\ exportOptionsFile = NoContent
          /\ ~exportInvoked
          /\ profs = <<>> /\ trail = <<>> /\ codeSignGroups = <<>>
          /\ err = CertificatesError => certs = <<>>
          /\ out = ZeroRunOut
          /\ pc = "Exited" => exitCode # 0
    /\ pc \in GeneratingPositions => err = ""

C14_Witness ==
    /\ err = ProfilesError
    /\ Len(certs) > 0
    /\ Len(installedProfs) > 0
    /\ pc = "Exited"
    /\ exitCode = 1

\* What resolution prints without failing.
Diagnostics ==
    {"Failed to find code signing groups for specified export method",
     "Failed to find Codesign Groups", "Multiple code signing groups found",
     "No profile available to sign target",
     "Both xcode managed and NON xcode managed profiles"}

\* C15: the exit code is non-zero exactly when ProcessInputs, Run or
\* ExportOutput returned an error; whatever resolution printed, the options
\* are generated without error and the exit code is decided by those three
\* errors alone.
C15_ExitCodeFollowsErrors ==
    /\ pc = "Exited" =>
          /\ exitCode \in {0, 1}
          /\ exitCode # 0 <=> (processErr # "" \/ err # "" \/ exportErr # "")
    /\ pc # "Exited" => exitCode = NotExited
    /\ (pc \in GeneratingPositions /\ logs \cap Diagnostics # {}) => err = ""
    /\ processErr # "" => (err = "" /\ exportErr = "" /\ out = ZeroRunOut)

C15_Witness ==
    /\ pc = "Exited"
    /\ exitCode = 0
    /\ {"Multiple code signing groups found",
         "Both xcode managed and NON xcode managed profiles"} \subseteq logs

\* getDefaultProvisioningProfile has been called.
DefaultProfileFetched == defaultProfile # [ok |-> FALSE]

\* The group has, for every bundle ID, a profile not named name.
HasOtherProfile(g, name) ==
    \A b \in DOMAIN g.bundleIDProfilesMap :
        \E k \in 1..Len(g.bundleIDProfilesMap[b]) : g.bundleIDProfilesMap[b][k].name # name

\* C16: the default profile is fetched exactly when no team identifier was
\* supplied and a default-profile URL is set; when it is not fetched, when the
\* fetch fails or when no group would be left without the default profile,
\* the step leaves the candidates as they were; otherwise the candidates are
\* the groups that have other profiles, in their order, without the default
\* profile.
C16_DefaultProfileExclusion ==
    /\ DefaultProfileFetched => (config.teamID = "" /\ defaultProfileURL # "")
    /\ \A i \in 1..Len(trail) :
          trail[i].step = "default-profile" =>
              LET before == trail[i].before
                  after == trail[i].after
              IN  /\ DefaultProfileFetched <=> (config.teamID = "" /\ defaultProfileURL # "")
                  /\ IF ~DefaultProfileFetched \/ ~defaultProfile.ok
                     THEN after = before
                     ELSE LET name == defaultProfile.profile.name
                              kept == SelectSeq(before, LAMBDA g : HasOtherProfile(g, name))
                          IN  IF Len(kept) = 0
                              THEN after = before
                              ELSE /\ Len(after) = Len(kept)
                                   /\ \A k \in 1..Len(after) :
                                         /\ after[k].certificate = kept[k].certificate
                                         /\ DOMAIN after[k].bundleIDProfilesMap
                                               = DOMAIN kept[k].bundleIDProfilesMap
                                         /\ \A b \in DOMAIN after[k].bundleIDProfilesMap :
                                               after[k].bundleIDProfilesMap[b] =
                                                 SelectSeq(kept[k].bundleIDProfilesMap[b],
                                                           LAMBDA q : q.name # name)

C16_Witness ==
    /\ DefaultProfileFetched
    /\ defaultProfile.ok
    /\ \E i \in 1..Len(trail) :
          /\ trail[i].step = "default-profile"
          /\ Len(trail[i].before) > 0
          /\ \A g \in GroupsOf(trail[i].before) :
                ~HasOtherProfile(g, defaultProfile.profile.name)
          /\ trail[i].after = trail[i].before

\* What resolution handed to the synthesis of the document.
Signing ==
    [mapping |-> exportProfileMapping, identity |-> exportCodeSignIdentity,
     teamID |-> exportTeamID, style |-> exportCodeSignStyle]

SampleSigning ==
    [mapping |-> (MainBundleID :> "Dist App"), identity |-> CertOne.commonName,
     teamID |-> CertOne.teamID, style |-> "manual"]

\* The keys of the document generated from the same inputs by Xcode version.
KeysAt(version, signing) ==
    DOMAIN String(ExportOptions([config EXCEPT !.xcodeMajorVersion = version],
                                archive, signing))

\* C17: the signing fields appear only from Xcode 9, the distribution bundle
\* identifier only for other methods than app-store from Xcode 12, the
\* manage-version flag only for app-store from Xcode 13, the upload-bitcode
\* flag only for app-store, the compile-bitcode flag only for the other
\* methods; no field is present with an empty value; a field of the document
\* is a field of the document of every later version.
C17_FieldsGatedByVersion ==
    Generated =>
        LET d == DOMAIN exportOptionsContent
            v == config.xcodeMajorVersion
            store == config.distributionMethod = MethodAppStore
        IN  /\ d \cap SigningKeys # {} => v >= 9
            /\ "distributionBundleIdentifier" \in d => (~store /\ v >= 12)
            /\ "manageAppVersion" \in d => (store /\ v >= 13)
            /\ "uploadBitcode" \in d => store
            /\ "compileBitcode" \in d => ~store
            /\ \A k \in d \cap {"signingCertificate", "teamID", "signingStyle",
                                 "distributionBundleIdentifier"} :
                  exportOptionsContent[k] # ""
            /\ "provisioningProfiles" \in d
                  => DOMAIN exportOptionsContent.provisioningProfiles # {}
            /\ \A w \in XcodeVersions :
                  w > v =>
                      IF v >= 9
                      THEN d \subseteq KeysAt(w, Signing)
                      ELSE /\ d \subseteq KeysAt(w, Signing)
                           /\ d \subseteq KeysAt(w, SampleSigning)

C17_Witness ==
    /\ Generated
    /\ config.xcodeMajorVersion = 12
    /\ config.distributionMethod = MethodDevelopment
    /\ {"distributionBundleIdentifier", "compileBitcode", "provisioningProfiles",
         "signingCertificate", "teamID"} \subseteq DOMAIN exportOptionsContent

\* C18: for development, ad-hoc and enterprise with Xcode 12 or later the
\* document's distribution bundle identifier is the bundle identifier of the
\* product that is distributed: the application's for product app, the clip's
\* for product app-clip; an app-store document never has one.
C18_DistributionBundleIdentifier ==
    Generated =>
        LET d == DOMAIN exportOptionsContent
        IN  /\ (config.distributionMethod # MethodAppStore /\ config.xcodeMajorVersion >= 12) =>
                  /\ "distributionBundleIdentifier" \in d
                  /\ config.productToDistribute = ExportProductApp
                        => exportOptionsContent.distributionBundleIdentifier = MainBundleID
                  /\ config.productToDistribute = ExportProductAppClip
                        => exportOptionsContent.distributionBundleIdentifier = ClipBundleID
            /\ config.distributionMethod = MethodAppStore
                  => "distributionBundleIdentifier" \notin d

C18_Witness ==
    /\ Generated
    /\ config.productToDistribute = ExportProductAppClip
    /\ config.distributionMethod = MethodAdHoc
    /\ config.xcodeMajorVersion = 13
    /\ exportOptionsContent.distributionBundleIdentifier = ClipBundleID

StepOrder ==
    <<"seed", "entitlements", "export-method", "team", "archive-origin", "default-profile">>

\* Every group of after is a group of before with the same certificate, whose
\* lists hold profiles of the lists it had.
Narrowed(before, after) ==
    \A g \in GroupsOf(after) :
        \E h \in GroupsOf(before) :
            /\ h.certificate = g.certificate
            /\ DOMAIN h.bundleIDProfilesMap = DOMAIN g.bundleIDProfilesMap
            /\ \A b \in DOMAIN g.bundleIDProfilesMap :
                  Range(g.bundleIDProfilesMap[b]) \subseteq Range(h.bundleIDProfilesMap[b])

\* C19: the steps run in the order seed, entitlements, export method, team,
\* archive origin, default profile, narrowing, selection; both stores are
\* listed before the seed is built; every step works on what the step before
\* it left; narrowing works on what the default-profile step left and
\* selection on the narrowed groups.
C19_StepsInOrder ==
    /\ Len(trail) <= Len(StepOrder)
    /\ \A i \in 1..Len(trail) : trail[i].step = StepOrder[i]
    /\ pc \in {"InstalledCertificates", "InstalledProfiles", "CreateGroups"} => trail = <<>>
    /\ Len(trail) > 0 =>
          /\ certs = FilterValidCertificateInfos(installedCerts)
          /\ profs = installedProfs
          /\ \A g \in GroupsOf(trail[1].after) :
                /\ g.certificate \in Range(certs)
                /\ \A b \in DOMAIN g.bundleIDProfilesMap :
                      Range(g.bundleIDProfilesMap[b]) \subseteq Range(profs)
    /\ \A i \in 2..Len(trail) :
          /\ trail[i].before = trail[i - 1].after
          /\ Narrowed(trail[i].before, trail[i].after)
    /\ (Len(trail) > 0 /\ pc \in GeneratingPositions) =>
          codeSignGroups = trail[Len(trail)].after
    /\ Len(trail) < Len(StepOrder) =>
          /\ iosCodeSignGroups = <<>>
          /\ exportCodeSignIdentity = ""
          /\ config.xcodeMajorVersion >= 9 => ~Generated
    /\ (Len(trail) = Len(StepOrder) /\ pc # "Narrow") =>
          LET last == trail[Len(StepOrder)].after
          IN  /\ Len(iosCodeSignGroups) = Len(last)
              /\ \A k \in 1..Len(last) :
                    iosCodeSignGroups[k].certificate = last[k].certificate
    /\ pc \in {"Narrow", "Select"} => (exportCodeSignIdentity = "" /\ ~Generated)
    /\ GroupSelected => exportCodeSignIdentity = iosCodeSignGroups[1].certificate.commonName

C19_Witness ==
    /\ Len(trail) = Len(StepOrder)
    /\ Len(trail[1].after) = 2
    /\ trail[3].after # trail[3].before
    /\ trail[4].after = trail[4].before
    /\ config.teamID # ""
    /\ GroupSelected
    /\ pc = "WriteExportOptions"

\* The positions up to per-target narrowing.
BeforeNarrowed ==
    {"ProcessInputs", "NewIosArchive", "ClipGuard", "ExportOptions",
     "InstalledCertificates", "InstalledProfiles", "CreateGroups", "EntitlementsFilter",
     "ExportMethodFilter", "TeamFilter", "NotXcodeManagedFilter", "DefaultProfile",
     "Narrow"}

\* C20: narrowing keeps every group, in order, with its certificate; a bundle
\* ID with candidates is mapped to the first of them, a bundle ID without
\* candidates is left out of the mapping with a warning; the first group is
\* selected afterwards even when it lost a bundle ID.
C20_NarrowingKeepsGroups ==
    pc \notin BeforeNarrowed =>
        /\ Len(iosCodeSignGroups) = Len(codeSignGroups)
        /\ \A k \in 1..Len(codeSignGroups) :
              LET lists == codeSignGroups[k].bundleIDProfilesMap
                  chosen == iosCodeSignGroups[k].bundleIDProfileMap
              IN  /\ iosCodeSignGroups[k].certificate = codeSignGroups[k].certificate
                  /\ DOMAIN chosen \subseteq DOMAIN lists
                  /\ \A b \in DOMAIN lists :
                        IF Len(lists[b]) > 0
                        THEN b \in DOMAIN chosen /\ chosen[b] = lists[b][1]
                        ELSE /\ b \notin DOMAIN chosen
                             /\ "No profile available to sign target" \in logs
        /\ (Len(codeSignGroups) > 0 /\ pc # "Select") =>
              /\ exportCodeSignIdentity = codeSignGroups[1].certificate.commonName
              /\ DOMAIN exportProfileMapping =
                    {b \in DOMAIN codeSignGroups[1].bundleIDProfilesMap :
                        Len(codeSignGroups[1].bundleIDProfilesMap[b]) > 0}

C20_Witness ==
    /\ pc = "WriteExportOptions"
    /\ Len(codeSignGroups) = 2
    /\ Len(codeSignGroups[1].bundleIDProfilesMap[ExtBundleID]) = 0
    /\ Len(codeSignGroups[1].bundleIDProfilesMap[MainBundleID]) = 2
    /\ Len(iosCodeSignGroups) = 2
    /\ DOMAIN exportProfileMapping = {MainBundleID}
    /\ "No profile available to sign target" \in logs

\* The selected group's mapping holds a managed and a non-managed profile.
MixedMapping ==
    /\ GroupSelected
    /\ \E b, c \in DOMAIN iosCodeSignGroups[1].bundleIDProfileMap :
          /\ IsXcodeManaged(iosCodeSignGroups[1].bundleIDProfileMap[b].name)
          /\ ~IsXcodeManaged(iosCodeSignGroups[1].bundleIDProfileMap[c].name)

\* C21: a selected group whose mapping holds both managed and non-managed
\* profiles is reported as inconsistent and used all the same: the document
\* carries its certificate's identity and team and its whole mapping, and
\* generateExportOptionsPlist returns no error.
C21_MixedGroupIsLoggedAndUsed ==
    MixedMapping =>
        /\ "Both xcode managed and NON xcode managed profiles" \in logs
        /\ Generated =>
              LET g == iosCodeSignGroups[1]
                  m == g.bundleIDProfileMap
              IN  /\ exportOptionsContent.signingCertificate = g.certificate.commonName
                  /\ exportOptionsContent.teamID = g.certificate.teamID
                  /\ exportOptionsContent.provisioningProfiles =
                        [b \in DOMAIN m |-> m[b].name]
                  /\ DOMAIN m = BundleIDs(archive)
        /\ pc = "WriteExportOptions" => (Generated /\ err = "")

C21_Witness ==
    /\ MixedMapping
    /\ pc = "WriteExportOptions"
    /\ Generated
    /\ err = ""
    /\ Len(iosCodeSignGroups) = 2
    /\ exportOptionsContent.provisioningProfiles[MainBundleID] = "Dist App"
    /\ exportOptionsContent.provisioningProfiles[ExtBundleID] = "XC iOS: *"

\* Run returned the path of the distribution logs.
LogsFound == out.ideDistrubutionLogDir # ""

LogsZip == "xcodebuild.xcdistributionlogs.zip"

\* C22: when the export command fails and its output names the distribution
\* logs, Run returns the error together with that path; ExportOutput then
\* zips the logs into the deploy directory and returns nil, also when zipping
\* fails, copies no .ipa file and sets neither the IPA nor the dSYM output;
\* RunStep returns the export error and the step exits with 1.
C22_FailedExportWithLogs ==
    LogsFound =>
        /\ exportInvoked
        /\ err = "export failed"
        /\ out = [ZeroRunOut EXCEPT !.ideDistrubutionLogDir = LogsDir]
        /\ exportErr = ""
        /\ deployDir \subseteq {LogsZip}
        /\ bitriseIPAPthEnvKey \notin DOMAIN envs
        /\ bitriseDSYMPthEnvKey \notin DOMAIN envs
        /\ pc \in {"StepReturned", "Exited"} =>
              \/ /\ deployDir = {LogsZip}
                 /\ DOMAIN envs = {bitriseIDEDistributionLogsPthEnvKey}
                 /\ envs[bitriseIDEDistributionLogsPthEnvKey] = FilePath(DeployDir, LogsZip)
              \/ /\ deployDir = {}
                 /\ DOMAIN envs = {}
                 /\ "Failed to export BITRISE_IDEDISTRIBUTION_LOGS_PATH" \in logs
        /\ pc = "Exited" => (exitCode = 1 /\ "export failed" \in logs)

C22_Witness ==
    /\ LogsFound
    /\ pc = "Exited"
    /\ exitCode = 1
    /\ deployDir = {}
    /\ "Failed to export BITRISE_IDEDISTRIBUTION_LOGS_PATH" \in logs
    /\ Len(disk.exported) > 0
    /\ Len(disk.workDir) > 0

\* Run returned without error: the export command succeeded.
Exported == pc \in {"RunReturned", "StepReturned", "Exited"} /\ processErr = "" /\ err = ""

\* ExportOutput has returned.
OutputReturned == pc \in {"StepReturned", "Exited"}

\* C23: after a successful export, ExportOutput returns an error when the
\* export directory holds no .ipa file; otherwise every .ipa file of the
\* export directory, one or several, is copied into the deploy directory
\* under its base name; when ExportOutput does not fail the IPA path output
\* is set, and the dSYM output is set exactly when the archive has an app dSYM.
C23_IpasCopiedToDeployDir ==
    (Exported /\ OutputReturned) =>
        /\ out.tmpDir = ExportDir
        /\ Len(disk.exported) = 0 =>
              /\ exportErr = "no ipa found with pattern"
              /\ deployDir = {}
              /\ DOMAIN envs = {}
        /\ (Len(disk.exported) > 0 /\ exportErr = "") =>
              /\ Range(disk.exported) \subseteq deployDir
              /\ deployDir \subseteq Range(disk.exported) \cup {ArchiveName \o ".dSYM.zip"}
              /\ bitriseIPAPthEnvKey \in DOMAIN envs
              /\ (bitriseDSYMPthEnvKey \in DOMAIN envs) <=> (Len(disk.dsyms) > 0)
              /\ (ArchiveName \o ".dSYM.zip" \in deployDir) <=> (Len(disk.dsyms) > 0)
        /\ bitriseDSYMPthEnvKey \in DOMAIN envs =>
              (Len(disk.dsyms) > 0 /\ bitriseIPAPthEnvKey \in DOMAIN envs)
        /\ exportErr \in {"failed to export BITRISE_IPA_PATH",
                          "failed to export BITRISE_DSYM_PATH"} =>
              Range(disk.exported) \subseteq deployDir

C23_Witness ==
    /\ Exported
    /\ pc = "Exited"
    /\ exitCode = 0
    /\ disk.exported = <<"App.ipa", "Clip.ipa">>
    /\ deployDir = {"App.ipa", "Clip.ipa", "App.dSYM.zip"}
    /\ DOMAIN envs = {bitriseIPAPthEnvKey, bitriseDSYMPthEnvKey}
    /\ "More than 1 .ipa file found" \in logs

\* The style the loop of utils.go:239-254 ends with when it visits the
\* selected group's entries in the given order.
StyleIn(order) ==
    SignStyleLoop(order, 1, iosCodeSignGroups[1].bundleIDProfileMap,
                  [style |-> "", mixed |-> FALSE]).style

\* C24: the signing style computed for the selected group is the same for
\* every order in which the entries of its mapping are visited, and so is
\* the document's signing-style field.
C24_StyleIndependentOfVisitingOrder ==
    GroupSelected =>
        \A order \in VisitOrders(DOMAIN iosCodeSignGroups[1].bundleIDProfileMap) :
            /\ StyleIn(order) = exportCodeSignStyle
            /\ Generated =>
                  String(ExportOptions(config, archive,
                      [mapping |-> exportProfileMapping,
                       identity |-> exportCodeSignIdentity,
                       teamID |-> exportTeamID,
                       style |-> StyleIn(order)])) = exportOptionsContent

\* The entitlement and export-method criteria accept profile p for bundle ID b.
MeetsCriteria(b, p) ==
    /\ p.exportType = config.distributionMethod
    /\ BundleIDEntitlementsMap(archive)[b] \subseteq p.entitlements

TeamsOfIdentity(commonName) ==
    {installedCerts[i].teamID :
        i \in {j \in 1..Len(installedCerts) : installedCerts[j].commonName = commonName}}

\* C26: when a team identifier is supplied and the document is generated,
\* the document's team identifier is the supplied one or is absent, and the
\* signing certificate it names, if any, is a certificate of that team.
C26_OnlySuppliedTeamInDocument ==
    (config.teamID # "" /\ Generated) =>
        /\ "teamID" \in DOMAIN exportOptionsContent =>
              exportOptionsContent.teamID = config.teamID
        /\ "signingCertificate" \in DOMAIN exportOptionsContent =>
              /\ TeamsOfIdentity(exportOptionsContent.signingCertificate) = {config.teamID}
              /\ "teamID" \in DOMAIN exportOptionsContent
        /\ exportTeamID \in {"", config.teamID}

C26_Witness ==
    /\ config.teamID = "T1"
    /\ Generated
    /\ installedCerts = <<CertTwo, CertOne>>
    /\ Len(trail[1].after) = 2
    /\ trail[1].after[1].certificate.teamID = "T2"
    /\ SigningKeys \ {"signingStyle"} \subseteq DOMAIN exportOptionsContent
    /\ exportOptionsContent.teamID = "T1"
    /\ exportOptionsContent.signingCertificate = CertOne.commonName

\* The signing values of utils.go:67-70 are those of the k-th candidate group:
\* identity and team of its certificate, every mapped name the name of one
\* of its profiles for that bundle ID.
SigningFrom(k) ==
    /\ exportCodeSignIdentity = codeSignGroups[k].certificate.commonName
    /\ exportTeamID = codeSignGroups[k].certificate.teamID
    /\ exportCodeSignIdentity # ""
    /\ exportTeamID # ""
    /\ DOMAIN exportProfileMapping \subseteq DOMAIN codeSignGroups[k].bundleIDProfilesMap
    /\ \A b \in DOMAIN exportProfileMapping :
          \E p \in Range(codeSignGroups[k].bundleIDProfilesMap[b]) :
              p.name = exportProfileMapping[b]
    /\ exportCodeSignStyle \in
          {StyleOf(exportProfileMapping[b]) : b \in DOMAIN exportProfileMapping}
              \cup (IF DOMAIN exportProfileMapping = {} THEN {""} ELSE {})

SigningUnset ==
    /\ exportCodeSignIdentity = ""
    /\ exportTeamID = ""
    /\ exportCodeSignStyle = ""
    /\ exportProfileMapping = EmptyMapping

\* C27: the signing fields are coherent.  With a selected group the identity
\* and the team are those of its certificate and every value of the mapping
\* names a profile of that group; without one the identity, the team and the
\* style are unset and the mapping is empty.  The generated document
\* carries the same: identity and team together or not at all, and no
\* signing key without a group.
C27_SigningFieldsCoherent ==
    /\ IF GroupSelected
       THEN \E k \in 1..Len(codeSignGroups) : SigningFrom(k)
       ELSE SigningUnset
    /\ Generated =>
          /\ \A key \in {"signingCertificate", "teamID", "provisioningProfiles"} :
                key \in DOMAIN exportOptionsContent =>
                    exportOptionsContent[key] =
                        CASE key = "signingCertificate" -> exportCodeSignIdentity
                          [] key = "teamID" -> exportTeamID
                          [] OTHER -> exportProfileMapping
          /\ ("signingCertificate" \in DOMAIN exportOptionsContent)
                <=> ("teamID" \in DOMAIN exportOptionsContent)
          /\ "provisioningProfiles" \in DOMAIN exportOptionsContent =>
                "signingCertificate" \in DOMAIN exportOptionsContent
          /\ "signingStyle" \in DOMAIN exportOptionsContent =>
                "provisioningProfiles" \in DOMAIN exportOptionsContent
          /\ config.xcodeMajorVersion >= 9 =>
                (GroupSelected <=> "signingCertificate" \in DOMAIN exportOptionsContent)
          /\ ~GroupSelected => DOMAIN exportOptionsContent \cap SigningKeys = {}

C27_Witness ==
    /\ GroupSelected
    /\ Generated
    /\ Len(iosCodeSignGroups) = 2
    /\ iosCodeSignGroups[1].certificate.teamID # iosCodeSignGroups[2].certificate.teamID
    /\ SigningFrom(1)
    /\ SigningKeys \ {"signingStyle"} \subseteq DOMAIN exportOptionsContent
    /\ Cardinality(DOMAIN exportProfileMapping) = 2

\* Run returned an error and no distribution-logs directory.
RunFailedWithoutLogs == err # "" /\ ~LogsFound

IpaFiles == Range(disk.exported) \cup Range(disk.workDir)

\* C28: when Run returns an error without a distribution-logs directory, the
\* step puts no .ipa file into the deploy directory and sets neither the IPA
\* path output nor the dSYM output, whatever the working directory holds.
C28_NothingExportedOnRunError ==
    (RunFailedWithoutLogs /\ OutputReturned) =>
        /\ deployDir \cap IpaFiles = {}
        /\ bitriseIPAPthEnvKey \notin DOMAIN envs
        /\ bitriseDSYMPthEnvKey \notin DOMAIN envs

\* C29: whenever ExportOutput sets the IPA path output, its value is the
\* path of a copy inside the deploy directory, with one .ipa file in the
\* export directory and with several.
C29_IpaPathInsideDeployDir ==
    bitriseIPAPthEnvKey \in DOMAIN envs =>
        /\ envs[bitriseIPAPthEnvKey].dir = DeployDir
        /\ Base(envs[bitriseIPAPthEnvKey]) \in deployDir

\* The run does not generate with the stores: the Xcode found is older than
\* Xcode 9 or an override is supplied.
StoresNotNeeded ==
    /\ Processed
    /\ \/ config.xcodeMajorVersion < 9
       \/ config.exportOptionsPlistContent # ""

\* The positions of utils.go:86-258, where the stores and the default-profile
\* URL are read and their content is used.
ResolvingPositions == GeneratingPositions \ {"Synthesize", "WriteExportOptions"}

\* C30: with an Xcode older than Xcode 9 or with an override, the
\* certificate store, the profile store and the default-profile URL are never
\* read: the run is at no position of the resolution, no resolution step has
\* run, no store error is returned, and a generated document has no signing
\* key.
C30_StoresNotQueried ==
    StoresNotNeeded =>
        /\ pc \notin ResolvingPositions
        /\ trail = <<>>
        /\ certs = <<>> /\ profs = <<>> /\ codeSignGroups = <<>> /\ iosCodeSignGroups = <<>>
        /\ defaultProfile = [ok |-> FALSE]
        /\ SigningUnset
        /\ err \notin {CertificatesError, ProfilesError}
        /\ logs \cap {CertificatesError, ProfilesError} = {}
        /\ Generated =>
              /\ config.exportOptionsPlistContent = ""
              /\ DOMAIN exportOptionsContent \cap SigningKeys = {}
        /\ config.exportOptionsPlistContent # "" => ~Generated

C30_Witness ==
    /\ StoresNotNeeded
    /\ config.xcodeMajorVersion = 8
    /\ config.exportOptionsPlistContent = ""
    /\ defaultProfileURL # ""
    /\ Len(installedProfs) = 2
    /\ Generated
    /\ pc = "Exited"
    /\ exitCode = 0

====
